---------------------------- MODULE Spec2Model ----------------------------
(***************************************************************************)
(* A model of the text-patching and rendering core of fastapi-new.         *)
(*                                                                         *)
(* Texts are sequences of one-character strings, so that the regular       *)
(* expressions of the source are modelled character by character.          *)
(* The program's state is the project's files (fs); input holds the        *)
(* arguments that the pure functions are applied to; log is the history of *)
(* the calls made so far, each with the text before and after it.          *)
(***************************************************************************)
EXTENDS Integers, Sequences, FiniteSets, TLC

VARIABLES fs, input, log

vars == <<fs, input, log>>

(***************************************************************************)
(* Bounds of the model.                                                    *)
(***************************************************************************)
MaxCalls == 2

MaxBodyLines == 2

MaxEnvLines == 2

MaxPieces == 6

MaxFiles == 3

MaxWordLen == 3

MaxNameLen == 4

(***************************************************************************)
(* Characters and the string primitives of Python that the source uses.    *)
(***************************************************************************)
NL == "\n"

QuoteD == "\""

QuoteS == "'"

Letters ==
    {"a", "b", "c", "d", "e", "f", "g", "h", "i", "j", "k", "l", "m",
     "n", "o", "p", "q", "r", "s", "t", "u", "v", "w", "x", "y", "z",
     "A", "B", "C", "D", "E", "F", "G", "H", "I", "J", "K", "L", "M",
     "N", "O", "P", "Q", "R", "S", "T", "U", "V", "W", "X", "Y", "Z"}

Digits == {"0", "1", "2", "3", "4", "5", "6", "7", "8", "9"}

\* \w of Python's re module
IsWord(c) == c \in Letters \cup Digits \cup {"_"}

\* \s of Python's re module, and the characters str.strip() removes
IsSpace(c) == c \in {" ", NL, "\t"}

\* t[i..j] (1-based, inclusive); empty when j < i
Slice(t, i, j) == SubSeq(t, i, j)

\* the suffix of t from position i
From(t, i) == SubSeq(t, i, Len(t))

\* the literal p occurs in t at position i
StartsWithAt(t, i, p) ==
    /\ i >= 1
    /\ i + Len(p) - 1 <= Len(t)
    /\ \A k \in 1..Len(p) : t[i + k - 1] = p[k]

\* str.endswith
EndsWith(t, p) ==
    /\ Len(p) <= Len(t)
    /\ StartsWithAt(t, Len(t) - Len(p) + 1, p)

\* Python's "p in t"
Contains(t, p) == \E i \in 1..(Len(t) - Len(p) + 1) : StartsWithAt(t, i, p)

\* the first position >= i at which p occurs in t, 0 if there is none
RECURSIVE Find(_, _, _)
Find(t, p, i) ==
    IF i + Len(p) - 1 > Len(t) THEN 0
    ELSE IF StartsWithAt(t, i, p) THEN i
    ELSE Find(t, p, i + 1)

\* str.count: the number of non-overlapping occurrences of p in t
RECURSIVE CountFrom(_, _, _)
CountFrom(t, p, i) ==
    LET at == Find(t, p, i)
    IN  IF at = 0 THEN 0 ELSE 1 + CountFrom(t, p, at + Len(p))

Count(t, p) == CountFrom(t, p, 1)

\* the position after a greedy \s* that starts at i
RECURSIVE SkipSpaces(_, _)
SkipSpaces(t, i) ==
    IF i <= Len(t) /\ IsSpace(t[i]) THEN SkipSpaces(t, i + 1) ELSE i

\* the position after a greedy \w* that starts at i
RECURSIVE SkipWord(_, _)
SkipWord(t, i) ==
    IF i <= Len(t) /\ IsWord(t[i]) THEN SkipWord(t, i + 1) ELSE i

\* the last position <= j that is not whitespace, 0 if there is none
RECURSIVE LastNonSpace(_, _)
LastNonSpace(t, j) ==
    IF j >= 1 /\ IsSpace(t[j]) THEN LastNonSpace(t, j - 1) ELSE j

\* str.rstrip
RStrip(t) == Slice(t, 1, LastNonSpace(t, Len(t)))

\* str.strip
Strip(t) == Slice(t, SkipSpaces(t, 1), LastNonSpace(t, Len(t)))

\* "x" and 'x'
DQ(s) == <<QuoteD>> \o s \o <<QuoteD>>

SQ(s) == <<QuoteS>> \o s \o <<QuoteS>>

(***************************************************************************)
(* Files.  A path either holds a text or does not exist.                   *)
(***************************************************************************)
NoFile == [exists |-> FALSE, text |-> <<>>]

File(t) == [exists |-> TRUE, text |-> t]

RegistryPath == "app/core/registry.py"

ConfigPath == "app/core/config.py"

EnvPath == ".env"

EnvExamplePath == ".env.example"

Paths == {RegistryPath, ConfigPath, EnvPath, EnvExamplePath}

EmptyProject == [p \in Paths |-> NoFile]

\* the commands that patch files take no text or context argument
NoInput == [content |-> <<>>, context |-> <<>>]

(***************************************************************************)
(* createapp.py: add_to_installed_apps                                     *)
(***************************************************************************)
INSTALLED_APPS == <<"I", "N", "S", "T", "A", "L", "L", "E", "D", "_", "A", "P", "P", "S">>

ListStr == <<"l", "i", "s", "t", "[", "s", "t", "r", "]">>

\* The head of the pattern, INSTALLED_APPS\s*:\s*list\[str\]\s*=\s*\[ ,
\* tried at position i: the position after the "[" it ends with, 0 if it
\* does not match there.  Every \s* is followed by a non-space literal, so
\* the greedy match is the only one.
MatchListHead(t, i) ==
    IF ~StartsWithAt(t, i, INSTALLED_APPS) THEN 0
    ELSE LET c == SkipSpaces(t, i + Len(INSTALLED_APPS))
         IN  IF ~StartsWithAt(t, c, <<":">>) THEN 0
             ELSE LET l == SkipSpaces(t, c + 1)
                  IN  IF ~StartsWithAt(t, l, ListStr) THEN 0
                      ELSE LET e == SkipSpaces(t, l + Len(ListStr))
                           IN  IF ~StartsWithAt(t, e, <<"=">>) THEN 0
                               ELSE LET b == SkipSpaces(t, e + 1)
                                    IN  IF StartsWithAt(t, b, <<"[">>)
                                        THEN b + 1 ELSE 0

\* The whole pattern (head)(.*?)(\]) with DOTALL, tried at position i: the
\* lazy group ends at the first "]" after the head.
\* The result is <<start of group 2, position of the "]">>, or <<0, 0>>.
MatchList(t, i) ==
    LET b == MatchListHead(t, i)
        c == IF b = 0 THEN 0 ELSE Find(t, <<"]">>, b)
    IN  IF c = 0 THEN <<0, 0>> ELSE <<b, c>>

\* re.search: the leftmost position >= i at which the pattern matches, 0 if none
RECURSIVE SearchList(_, _)
SearchList(t, i) ==
    IF i > Len(t) THEN 0
    ELSE IF MatchList(t, i)[1] # 0 THEN i
    ELSE SearchList(t, i + 1)

\* a variant that never finds the name
AlreadyRegistered_never(content, app_name) == FALSE

\* the "already registered" test made on the whole file content
AlreadyRegistered(content, app_name) ==
    Contains(content, DQ(app_name)) \/ Contains(content, SQ(app_name))

\* \n    "app_name",
NewEntry(app_name) == <<NL, " ", " ", " ", " ">> \o DQ(app_name) \o <<",">>

\* the nested function replacer: the text that replaces one match
replacer(prefix, group2, suffix, app_name) ==
    LET existing == Strip(group2)
        new_content ==
            IF existing # <<>> /\ ~EndsWith(existing, <<",">>)
            THEN IF EndsWith(RStrip(existing), <<"#">>)
                    \/ EndsWith(RStrip(existing), <<",">>)
                 THEN existing \o NewEntry(app_name)
                 ELSE existing \o <<",">> \o NewEntry(app_name)
            ELSE IF existing # <<>>
            THEN existing \o NewEntry(app_name)
            ELSE NewEntry(app_name) \o <<NL>>
    IN  prefix \o new_content \o <<NL>> \o suffix

\* re.subn(pattern, replacer, content, flags=re.DOTALL) from position i on:
\* every non-overlapping match, left to right, is replaced
RECURSIVE SubnList(_, _, _)
SubnList(t, i, app_name) ==
    LET at == SearchList(t, i)
    IN  IF at = 0 THEN [text |-> From(t, i), count |-> 0]
        ELSE LET m    == MatchList(t, at)
                 rest == SubnList(t, m[2] + 1, app_name)
             IN  [text  |-> Slice(t, i, at - 1)
                            \o replacer(Slice(t, at, m[1] - 1),
                                        Slice(t, m[1], m[2] - 1),
                                        <<"]">>, app_name)
                            \o rest.text,
                  count |-> 1 + rest.count]

\* add_to_installed_apps(registry_path, app_name): the value returned and
\* the file it leaves behind
add_to_installed_apps(file, app_name) ==
    IF ~file.exists THEN [result |-> FALSE, file |-> file]
    ELSE IF AlreadyRegistered(file.text, app_name)
    THEN [result |-> TRUE, file |-> file]
    ELSE LET sub == SubnList(file.text, 1, app_name)
         IN  IF sub.count > 0
             THEN [result |-> TRUE, file |-> File(sub.text)]
             ELSE [result |-> FALSE, file |-> file]

(***************************************************************************)
(* Registry files the model starts from: an optional line before the      *)
(* list, the list's head, and up to MaxBodyLines lines in its body.        *)
(***************************************************************************)
Users == <<"u", "s", "e", "r", "s">>

Shop == <<"s", "h", "o", "p">>

AppNames == {Users, Shop}

Indent == <<" ", " ", " ", " ">>

HeadAnnotated ==
    INSTALLED_APPS \o <<":", " ">> \o ListStr \o <<" ", "=", " ", "[">>

HeadPlain == INSTALLED_APPS \o <<" ", "=", " ", "[">>

CommentText ==
    <<"#", " ", "A", "d", "d", " ", "y", "o", "u", "r", " ",
      "a", "p", "p", "s", " ", "h", "e", "r", "e">>

CommentLine == Indent \o CommentText \o <<NL>>

BracketCommentLine ==
    Indent \o <<"#", " ", "s", "e", "e", " ", "[", "d", "o", "c", "s", "]", NL>>

EntryComma == Indent \o DQ(Shop) \o <<",", NL>>

EntryBare == Indent \o DQ(Shop) \o <<NL>>

EntrySingle == Indent \o SQ(Users) \o <<",", NL>>

EntryTrailingComment ==
    Indent \o DQ(Shop) \o <<",", " ", " ", "#", " ", "m", "a", "i", "n", NL>>

EntryBareComment ==
    Indent \o DQ(Shop) \o <<" ", " ", "#", " ", "m", "a", "i", "n", NL>>

BodyLines ==
    {CommentLine, BracketCommentLine, EntryComma, EntryBare, EntrySingle,
     EntryTrailingComment, EntryBareComment}

RECURSIVE Concat(_)
Concat(ss) == IF ss = <<>> THEN <<>> ELSE Head(ss) \o Concat(Tail(ss))

SeqsUpTo(lines, n) == UNION {[1..k -> lines] : k \in 0..n}

\* the text between "[" and "]": nothing at all, or a line break followed
\* by whole lines
Bodies == {<<>>} \cup {<<NL>> \o Concat(ls) : ls \in SeqsUpTo(BodyLines, MaxBodyLines)}

PreQuotedComment ==
    <<"#", " ", "e", ".", "g", ".", " ">> \o DQ(Users) \o <<NL>>

PreOtherSetting ==
    <<"D", "E", "F", "A", "U", "L", "T", " ", "=", " ">> \o SQ(Shop) \o <<NL>>

Preambles == {<<>>, PreQuotedComment, PreOtherSetting}

\* a registry text with one INSTALLED_APPS list
ListText(pre, head, body) == pre \o head \o body \o <<"]", NL>>

AnnotatedTexts == {ListText(p, HeadAnnotated, b) : p \in Preambles, b \in Bodies}

\* texts without a list the pattern accepts: no list at all, or a list
\* without the list[str] annotation
PlainTexts == {ListText(p, HeadPlain, b) : p \in Preambles, b \in {<<NL>>, <<NL>> \o EntryComma}}

NoListTexts == Preambles \cup PlainTexts

RegistryTexts == AnnotatedTexts \cup NoListTexts

InitRegistry ==
    /\ \E f \in {NoFile} \cup {File(t) : t \in RegistryTexts} :
           fs = [EmptyProject EXCEPT ![RegistryPath] = f]
    /\ input = NoInput
    /\ log = <<>>

\* createapp registers the app: one call of add_to_installed_apps
AddToInstalledApps(app_name) ==
    /\ Len(log) < MaxCalls
    /\ UNCHANGED input
    /\ LET r == add_to_installed_apps(fs[RegistryPath], app_name)
       IN  /\ fs' = [fs EXCEPT ![RegistryPath] = r.file]
           /\ log' = Append(log, [op     |-> "add_to_installed_apps",
                                  arg    |-> app_name,
                                  before |-> fs[RegistryPath],
                                  after  |-> r.file,
                                  result |-> r.result])

NextRegistry == \E n \in AppNames : AddToInstalledApps(n)

SpecRegistry == InitRegistry /\ [][NextRegistry]_vars

(***************************************************************************)
(* listapps.py: get_installed_apps; doctor.py: check_installed_apps        *)
(***************************************************************************)
IsQuoteChar(c) == c = QuoteD \/ c = QuoteS

\* re.findall(r'["\'](\w+)["\']', t) from position i on: the words between
\* two quotes, left to right, a match starting after the one before it
RECURSIVE FindQuotedWords(_, _)
FindQuotedWords(t, i) ==
    IF i > Len(t) THEN <<>>
    ELSE LET e == SkipWord(t, i + 1)
         IN  IF IsQuoteChar(t[i]) /\ e > i + 1 /\ e <= Len(t) /\ IsQuoteChar(t[e])
             THEN <<Slice(t, i + 1, e - 1)>> \o FindQuotedWords(t, e + 1)
             ELSE FindQuotedWords(t, i + 1)

\* group 1 of re.search(pattern, content, re.DOTALL); found is FALSE when
\* there is no match
ListContent(content) ==
    LET at == SearchList(content, 1)
        m  == MatchList(content, at)
    IN  IF at = 0 THEN [found |-> FALSE, text |-> <<>>]
        ELSE [found |-> TRUE, text |-> Slice(content, m[1], m[2] - 1)]

\* get_installed_apps(registry_path)
get_installed_apps(file) ==
    IF ~file.exists THEN <<>>
    ELSE LET match == ListContent(file.text)
         IN  IF ~match.found THEN <<>>
             ELSE FindQuotedWords(match.text, 1)

\* str.split('\n')
RECURSIVE SplitLines(_)
SplitLines(t) ==
    LET at == Find(t, <<NL>>, 1)
    IN  IF at = 0 THEN <<t>>
        ELSE <<Slice(t, 1, at - 1)>> \o SplitLines(From(t, at + 1))

\* the loop over the lines of the list content: the names on the lines
\* that are not empty and do not start with "#"
RECURSIVE AppsOfLines(_)
AppsOfLines(lines) ==
    IF lines = <<>> THEN <<>>
    ELSE LET line == Strip(Head(lines))
         IN  IF line = <<>> \/ StartsWithAt(line, 1, <<"#">>)
             THEN AppsOfLines(Tail(lines))
             ELSE FindQuotedWords(line, 1) \o AppsOfLines(Tail(lines))

\* the result tuple of one app: dirs are the app directories that exist,
\* routes those of them that hold routes.py
AppResult(app_name, dirs, routes) ==
    IF app_name \in dirs
    THEN IF app_name \in routes THEN <<app_name, TRUE, "OK">>
         ELSE <<app_name, FALSE, "Missing routes.py">>
    ELSE <<app_name, FALSE, "Directory not found">>

\* check_installed_apps(project_root)
check_installed_apps(file, dirs, routes) ==
    IF ~file.exists THEN <<<<"registry.py", FALSE, "File not found">>>>
    ELSE LET match == ListContent(file.text)
         IN  IF ~match.found
             THEN <<<<"INSTALLED_APPS", FALSE, "Could not parse INSTALLED_APPS">>>>
             ELSE LET apps == AppsOfLines(SplitLines(match.text))
                  IN  IF apps = <<>>
                      THEN <<<<"INSTALLED_APPS", TRUE, "Empty (no apps registered)">>>>
                      ELSE [k \in 1..Len(apps) |-> AppResult(apps[k], dirs, routes)]

GetInstalledApps ==
    /\ Len(log) < MaxCalls
    /\ UNCHANGED <<fs, input>>
    /\ log' = Append(log, [op     |-> "get_installed_apps",
                           arg    |-> <<>>,
                           before |-> fs[RegistryPath],
                           after  |-> fs[RegistryPath],
                           result |-> get_installed_apps(fs[RegistryPath])])

\* the app directories are not part of the state: any of them may exist
CheckInstalledApps ==
    /\ Len(log) < MaxCalls
    /\ UNCHANGED <<fs, input>>
    /\ \E dirs \in SUBSET AppNames :
           \E routes \in SUBSET dirs :
               log' = Append(log, [op     |-> "check_installed_apps",
                                   arg    |-> <<>>,
                                   before |-> fs[RegistryPath],
                                   after  |-> fs[RegistryPath],
                                   result |-> check_installed_apps(fs[RegistryPath],
                                                                   dirs, routes)])

\* registry files the readers are run on: lists of at most one line, and
\* the texts without a list
ListingTexts ==
    {ListText(p, HeadAnnotated, b) :
        p \in Preambles, b \in {<<>>} \cup {<<NL>> \o l : l \in BodyLines \cup {<<>>}}}
    \cup NoListTexts

InitListing ==
    /\ \E f \in {NoFile} \cup {File(t) : t \in ListingTexts} :
           fs = [EmptyProject EXCEPT ![RegistryPath] = f]
    /\ input = NoInput
    /\ log = <<>>

NextListing ==
    \/ \E n \in AppNames : AddToInstalledApps(n)
    \/ GetInstalledApps
    \/ CheckInstalledApps

SpecListing == InitListing /\ [][NextListing]_vars

(***************************************************************************)
(* adddb.py: update_config_engine                                          *)
(***************************************************************************)
DATABASE_ENGINE ==
    <<"D", "A", "T", "A", "B", "A", "S", "E", "_", "E", "N", "G", "I", "N", "E">>

IsQuote(t, i) == i >= 1 /\ i <= Len(t) /\ t[i] \in {QuoteD, QuoteS}

\* a variant that takes a bare word for a value: the quotes are optional
MatchValue_unquoted(t, k) ==
    LET v == SkipSpaces(t, k + 1)
        w == SkipWord(t, IF IsQuote(t, v) THEN v + 1 ELSE v)
    IN  IF IsQuote(t, v) /\ w > v + 1 /\ IsQuote(t, w) THEN <<v, w>>
        ELSE IF ~IsQuote(t, v) /\ w > v THEN <<v, w - 1>>
        ELSE <<0, 0>>

\* The tail of the pattern, =\s*["'](\w+)["'] , tried with its "=" at
\* position k: <<position of the opening quote, position of the closing
\* quote>>, or <<0, 0>>.  The two quotes need not be the same character.
MatchValue(t, k) ==
    LET v == SkipSpaces(t, k + 1)
        w == SkipWord(t, v + 1)
    IN  IF IsQuote(t, v) /\ w > v + 1 /\ IsQuote(t, w) THEN <<v, w>>
        ELSE <<0, 0>>

\* The lazy .*?= of the pattern from position k on: "." does not match a
\* line break (no DOTALL), and the first "=" after which the tail matches
\* is taken.
RECURSIVE MatchLazyEquals(_, _)
MatchLazyEquals(t, k) ==
    IF k > Len(t) \/ t[k] = NL THEN <<0, 0>>
    ELSE IF t[k] = "=" /\ MatchValue(t, k)[1] # 0 THEN MatchValue(t, k)
    ELSE MatchLazyEquals(t, k + 1)

\* The pattern (DATABASE_ENGINE\s*:\s*.*?=\s*)["'](\w+)["'] tried at
\* position i.  The \s* after the colon is greedy; what it would give back
\* on backtracking is white space that ".*?" can only take over when it has
\* no line break, so the shorter matches offer no "=" that the longest does
\* not offer.
MatchEngine(t, i) ==
    IF ~StartsWithAt(t, i, DATABASE_ENGINE) THEN <<0, 0>>
    ELSE LET c == SkipSpaces(t, i + Len(DATABASE_ENGINE))
         IN  IF ~StartsWithAt(t, c, <<":">>) THEN <<0, 0>>
             ELSE MatchLazyEquals(t, SkipSpaces(t, c + 1))

\* the leftmost position >= i at which the pattern matches, 0 if none
RECURSIVE SearchEngine(_, _)
SearchEngine(t, i) ==
    IF i > Len(t) THEN 0
    ELSE IF MatchEngine(t, i)[1] # 0 THEN i
    ELSE SearchEngine(t, i + 1)

\* a variant that forgets the \1 of the replacement
EngineReplacement_nogroup(group1, engine) == DQ(engine)

\* the replacement \1"engine"
EngineReplacement(group1, engine) == group1 \o DQ(engine)

\* re.sub(pattern, f'\\1"{engine}"', content) from position i on
RECURSIVE SubEngine(_, _, _)
SubEngine(t, i, engine) ==
    LET at == SearchEngine(t, i)
    IN  IF at = 0 THEN From(t, i)
        ELSE LET m == MatchEngine(t, at)
             IN  Slice(t, i, at - 1)
                 \o EngineReplacement(Slice(t, at, m[1] - 1), engine)
                 \o SubEngine(t, m[2] + 1, engine)

\* a variant that reports every call on an existing file as an update
update_config_engine_always(file, engine) ==
    IF ~file.exists THEN [result |-> FALSE, file |-> file]
    ELSE [result |-> TRUE, file |-> File(SubEngine(file.text, 1, engine))]

\* update_config_engine(config_path, engine): the value returned and the
\* file it leaves behind
update_config_engine(file, engine) ==
    IF ~file.exists THEN [result |-> FALSE, file |-> file]
    ELSE LET new_content == SubEngine(file.text, 1, engine)
         IN  IF new_content # file.text
             THEN [result |-> TRUE, file |-> File(new_content)]
             ELSE [result |-> FALSE, file |-> file]

(***************************************************************************)
(* Config files the model starts from: at most one line that sets          *)
(* DATABASE_ENGINE, with at most one other line before and after it.       *)
(***************************************************************************)
Postgres == <<"p", "o", "s", "t", "g", "r", "e", "s">>

Mysql == <<"m", "y", "s", "q", "l">>

Sqlite == <<"s", "q", "l", "i", "t", "e">>

Mongodb == <<"m", "o", "n", "g", "o", "d", "b">>

\* the keys of SUPPORTED_ENGINES
Engines == {Postgres, Mysql, Sqlite, Mongodb}

\* a quoted value that is not made of word characters only
MyDb == <<"m", "y", "-", "d", "b">>

OldValues == {Sqlite, Postgres}

\* DATABASE_ENGINE: str =
PrefixTight == DATABASE_ENGINE \o <<":", " ", "s", "t", "r", " ", "=", " ">>

\* DATABASE_ENGINE : str  =
PrefixSpaced ==
    DATABASE_ENGINE \o <<" ", ":", " ", "s", "t", "r", " ", " ", "=", " ", " ">>

\* DATABASE_ENGINE =
PrefixPlain == DATABASE_ENGINE \o <<" ", "=", " ">>

AnnotatedPrefixes == {PrefixTight, PrefixSpaced}

Quotes == {QuoteD, QuoteS}

\* one assignment line: prefix, quote, value, quote, line break
AssignLine(prefix, q, v) == prefix \o <<q>> \o v \o <<q, NL>>

OtherLine ==
    <<"O", "T", "H", "E", "R", " ", "=", " ">> \o SQ(<<"v">>) \o <<NL>>

\* a comment that quotes an engine name
QuotedCommentLine == <<"#", " ", "n", "o", "t", " ">> \o DQ(Sqlite) \o <<NL>>

\* DATABASE_ENGINE: str = DEFAULT   (a value that is not a quoted string)
UnquotedLine == PrefixTight \o <<"D", "E", "F", "A", "U", "L", "T", NL>>

ConfigBefore == {<<>>, OtherLine}

ConfigAfter == {<<>>, OtherLine, QuotedCommentLine}

AnnotatedLines ==
    {AssignLine(p, q, v) : p \in AnnotatedPrefixes, q \in Quotes, v \in OldValues}

PlainLines == {AssignLine(PrefixPlain, q, v) : q \in Quotes, v \in OldValues}

NonWordLines == {AssignLine(PrefixTight, QuoteD, MyDb)}

\* lines without a DATABASE_ENGINE assignment of a quoted value
NoAssignLines == {<<>>, UnquotedLine}

ConfigTextsOf(lines) ==
    {b \o l \o a : b \in ConfigBefore, l \in lines, a \in ConfigAfter}

ConfigTexts ==
    ConfigTextsOf(AnnotatedLines \cup PlainLines \cup NonWordLines
                  \cup NoAssignLines)

InitConfig ==
    /\ \E f \in {NoFile} \cup {File(t) : t \in ConfigTexts} :
           fs = [EmptyProject EXCEPT ![ConfigPath] = f]
    /\ input = NoInput
    /\ log = <<>>

\* adddb updates config.py: one call of update_config_engine
UpdateConfigEngine(engine) ==
    /\ Len(log) < MaxCalls
    /\ UNCHANGED input
    /\ LET r == update_config_engine(fs[ConfigPath], engine)
       IN  /\ fs' = [fs EXCEPT ![ConfigPath] = r.file]
           /\ log' = Append(log, [op     |-> "update_config_engine",
                                  arg    |-> engine,
                                  before |-> fs[ConfigPath],
                                  after  |-> r.file,
                                  result |-> r.result])

NextConfig == \E e \in Engines : UpdateConfigEngine(e)

SpecConfig == InitConfig /\ [][NextConfig]_vars

(***************************************************************************)
(* adddb.py: update_env_file                                               *)
(***************************************************************************)
EngineKey == DATABASE_ENGINE \o <<"=">>

UrlKey == <<"D", "A", "T", "A", "B", "A", "S", "E", "_", "U", "R", "L", "=">>

\* ://user:password@localhost:
Credentials ==
    <<":", "/", "/", "u", "s", "e", "r", ":", "p", "a", "s", "s", "w", "o", "r", "d",
      "@", "l", "o", "c", "a", "l", "h", "o", "s", "t", ":">>

DbName == <<"/", "d", "b", "n", "a", "m", "e">>

\* SUPPORTED_ENGINES[engine]["url_example"]
UrlExample(engine) ==
    IF engine = Postgres
    THEN Postgres \o <<"q", "l">> \o Credentials \o <<"5", "4", "3", "2">> \o DbName
    ELSE IF engine = Mysql
    THEN Mysql \o Credentials \o <<"3", "3", "0", "6">> \o DbName
    ELSE IF engine = Sqlite
    THEN Sqlite \o <<":", "/", "/", "/", ".", "/", "a", "p", "p", ".", "d", "b">>
    ELSE Mongodb \o Credentials \o <<"2", "7", "0", "1", "7">> \o DbName

\* the position after a greedy .* that starts at i: "." stops at a line break
RECURSIVE SkipLine(_, _)
SkipLine(t, i) ==
    IF i <= Len(t) /\ t[i] # NL THEN SkipLine(t, i + 1) ELSE i

\* re.sub(r"DATABASE_ENGINE=\w*", f"DATABASE_ENGINE={engine}", content)
\* from position i on
RECURSIVE SubEnvEngine(_, _, _)
SubEnvEngine(t, i, engine) ==
    LET at == Find(t, EngineKey, i)
    IN  IF at = 0 THEN From(t, i)
        ELSE Slice(t, i, at - 1) \o EngineKey \o engine
             \o SubEnvEngine(t, SkipWord(t, at + Len(EngineKey)), engine)

\* re.sub(r"DATABASE_URL=.*", f"DATABASE_URL={url_example}", content)
\* from position i on
RECURSIVE SubEnvUrl(_, _, _)
SubEnvUrl(t, i, url_example) ==
    LET at == Find(t, UrlKey, i)
    IN  IF at = 0 THEN From(t, i)
        ELSE Slice(t, i, at - 1) \o UrlKey \o url_example
             \o SubEnvUrl(t, SkipLine(t, at + Len(UrlKey)), url_example)

\* the text update_env_file starts from: .env, else .env.example, else ""
EnvContent(env, example) ==
    IF env.exists THEN env.text
    ELSE IF example.exists THEN example.text
    ELSE <<>>

\* a variant that sets the URL for every engine
update_env_file_anyurl(env, example, engine, url_example) ==
    LET content == EnvContent(env, example)
        engine_set ==
            IF Contains(content, EngineKey)
            THEN SubEnvEngine(content, 1, engine)
            ELSE content \o <<NL>> \o EngineKey \o engine \o <<NL>>
        url_set ==
            IF Contains(engine_set, UrlKey)
            THEN SubEnvUrl(engine_set, 1, url_example)
            ELSE engine_set
    IN  [result |-> TRUE, file |-> File(url_set)]

\* update_env_file(env_path, engine, url_example): the value returned and
\* the .env file it leaves behind ("updated" is True on both branches)
update_env_file(env, example, engine, url_example) ==
    LET content == EnvContent(env, example)
        engine_set ==
            IF Contains(content, EngineKey)
            THEN SubEnvEngine(content, 1, engine)
            ELSE content \o <<NL>> \o EngineKey \o engine \o <<NL>>
        url_set ==
            IF engine = Sqlite /\ Contains(engine_set, UrlKey)
            THEN SubEnvUrl(engine_set, 1, url_example)
            ELSE engine_set
    IN  [result |-> TRUE, file |-> File(url_set)]

(***************************************************************************)
(* Env files the model starts from: up to MaxEnvLines lines, the last one  *)
(* with or without its line break.                                         *)
(***************************************************************************)
EngineLineOf(v) == EngineKey \o v

\* DATABASE_ENGINE=sqlite, and a value that is not a word: DATABASE_ENGINE=my-db
EngineLines == {EngineLineOf(Sqlite), EngineLineOf(MyDb)}

\* DATABASE_URL=pg://old
UrlLine == UrlKey \o <<"p", "g", ":", "/", "/", "o", "l", "d">>

\* OTHER=value
OtherEnvLine == <<"O", "T", "H", "E", "R", "=", "v", "a", "l", "u", "e">>

\* another key that ends in the key: TEST_DATABASE_ENGINE=sqlite
TestKeyLine == <<"T", "E", "S", "T", "_">> \o EngineLineOf(Sqlite)

EnvLines == EngineLines \cup {UrlLine, OtherEnvLine, TestKeyLine}

\* lines joined by line breaks; nl tells whether the last line has one
RECURSIVE JoinLines(_)
JoinLines(ls) ==
    IF ls = <<>> THEN <<>>
    ELSE IF Len(ls) = 1 THEN ls[1]
    ELSE ls[1] \o <<NL>> \o JoinLines(Tail(ls))

EnvText(ls, nl) == JoinLines(ls) \o (IF nl /\ ls # <<>> THEN <<NL>> ELSE <<>>)

EnvLineSeqs == SeqsUpTo(EnvLines, MaxEnvLines)

EnvTexts == {EnvText(ls, nl) : ls \in EnvLineSeqs, nl \in BOOLEAN}

\* the .env.example that new.py leaves in a project
ExampleText == EnvText(<<EngineLineOf(Sqlite), UrlLine>>, TRUE)

InitEnv ==
    /\ \E t \in EnvTexts :
           \/ fs = [EmptyProject EXCEPT ![EnvPath] = File(t)]
           \/ fs = [EmptyProject EXCEPT ![EnvPath] = File(t),
                                        ![EnvExamplePath] = File(ExampleText)]
           \/ fs = [EmptyProject EXCEPT ![EnvExamplePath] = File(t)]
           \/ fs = EmptyProject
    /\ input = NoInput
    /\ log = <<>>

\* adddb updates .env: one call of update_env_file
UpdateEnvFile(engine) ==
    /\ Len(log) < MaxCalls
    /\ UNCHANGED input
    /\ LET r == update_env_file(fs[EnvPath], fs[EnvExamplePath], engine,
                                UrlExample(engine))
       IN  /\ fs' = [fs EXCEPT ![EnvPath] = r.file]
           /\ log' = Append(log, [op      |-> "update_env_file",
                                  arg     |-> engine,
                                  before  |-> fs[EnvPath],
                                  example |-> fs[EnvExamplePath],
                                  after   |-> r.file,
                                  result  |-> r.result])

NextEnv == \E e \in Engines : UpdateEnvFile(e)

SpecEnv == InitEnv /\ [][NextEnv]_vars

(***************************************************************************)
(* utils/templates.py: render_template                                     *)
(***************************************************************************)
\* Context values: strings, integers and booleans (everything str() takes).
StrVal(s) == [kind |-> "str", s |-> s, n |-> 0, b |-> FALSE]

IntVal(n) == [kind |-> "int", s |-> <<>>, n |-> n, b |-> FALSE]

BoolVal(b) == [kind |-> "bool", s |-> <<>>, n |-> 0, b |-> b]

DigitChars == <<"0", "1", "2", "3", "4", "5", "6", "7", "8", "9">>

\* the decimal digits of a natural number
RECURSIVE NatStr(_)
NatStr(n) ==
    IF n < 10 THEN <<DigitChars[n + 1]>>
    ELSE NatStr(n \div 10) \o <<DigitChars[(n % 10) + 1]>>

\* Python's str() on a context value
Str(v) ==
    IF v.kind = "str" THEN v.s
    ELSE IF v.kind = "int"
    THEN IF v.n < 0 THEN <<"-">> \o NatStr(0 - v.n) ELSE NatStr(v.n)
    ELSE IF v.b THEN <<"T", "r", "u", "e">> ELSE <<"F", "a", "l", "s", "e">>

\* The pattern \{\{(\w+)\}\} tried at position i: the position of the last
\* "}" of the match, 0 if it does not match there.  "}" is not a word
\* character, so the greedy \w+ is the only way to match.
MatchPlaceholder(t, i) ==
    LET w == SkipWord(t, i + 2)
    IN  IF StartsWithAt(t, i, <<"{", "{">>) /\ w > i + 2
           /\ StartsWithAt(t, w, <<"}", "}">>)
        THEN w + 1 ELSE 0

\* the leftmost position >= i at which the pattern matches, 0 if none
RECURSIVE SearchPlaceholder(_, _)
SearchPlaceholder(t, i) ==
    IF i > Len(t) THEN 0
    ELSE IF MatchPlaceholder(t, i) # 0 THEN i
    ELSE SearchPlaceholder(t, i + 1)

\* a variant that substitutes nothing for an unknown name
\* (context.get(var_name, ""))
replace_var_blank(group0, var_name, context) ==
    IF var_name \in DOMAIN context THEN Str(context[var_name]) ELSE <<>>

\* the nested function replace_var: group0 is the whole match, var_name its
\* group 1
replace_var(group0, var_name, context) ==
    IF var_name \in DOMAIN context THEN Str(context[var_name]) ELSE group0

\* re.sub(pattern, replace_var, content) from position i on: the matches
\* are found in the given text; what is substituted is not scanned again
RECURSIVE SubPlaceholders(_, _, _)
SubPlaceholders(t, i, context) ==
    LET at == SearchPlaceholder(t, i)
    IN  IF at = 0 THEN From(t, i)
        ELSE LET end == MatchPlaceholder(t, at)
             IN  Slice(t, i, at - 1)
                 \o replace_var(Slice(t, at, end), Slice(t, at + 2, end - 2), context)
                 \o SubPlaceholders(t, end + 1, context)

\* a variant that scans what it substituted once more
render_template_rescan(content, context) ==
    SubPlaceholders(SubPlaceholders(content, 1, context), 1, context)

\* a variant that substitutes the first placeholder only (count=1)
render_template_first(content, context) ==
    LET at == SearchPlaceholder(content, 1)
    IN  IF at = 0 THEN content
        ELSE LET end == MatchPlaceholder(content, at)
             IN  Slice(content, 1, at - 1)
                 \o replace_var(Slice(content, at, end),
                                Slice(content, at + 2, end - 2), context)
                 \o From(content, end + 1)

\* render_template(content, context)
render_template(content, context) == SubPlaceholders(content, 1, context)

(***************************************************************************)
(* Template texts and contexts the model starts from: texts of up to       *)
(* MaxPieces pieces, contexts over two keys.                               *)
(***************************************************************************)
KeyA == <<"a">>

KeyB == <<"b">>

Keys == {KeyA, KeyB}

Pieces == {<<"{", "{">>, <<"}", "}">>, <<"a">>, <<" ">>}

TemplateTexts == {Concat(ps) : ps \in SeqsUpTo(Pieces, MaxPieces)}

\* a word that is a key, a text with a placeholder in it, and a number
Values == {StrVal(KeyA), StrVal(<<"{", "{", "b", "}", "}">>), IntVal(42)}

Contexts == UNION {[ks -> Values] : ks \in SUBSET Keys}

InitRender ==
    /\ fs = EmptyProject
    /\ \E t \in TemplateTexts, c \in Contexts :
           input = [content |-> t, context |-> c]
    /\ log = <<>>

\* render_template applied to the text, and then to what it returned
Render ==
    /\ Len(log) < MaxCalls
    /\ UNCHANGED <<fs, input>>
    /\ LET content == IF log = <<>> THEN input.content
                      ELSE log[Len(log)].after
           out     == render_template(content, input.context)
       IN  log' = Append(log, [op     |-> "render_template",
                               arg    |-> input.context,
                               before |-> content,
                               after  |-> out,
                               result |-> out])

NextRender == Render

SpecRender == InitRender /\ [][NextRender]_vars

(***************************************************************************)
(* utils/templates.py: copy_template_file, copy_template_directory         *)
(*                                                                         *)
(* A path is a sequence of segments, a segment a text.  The template tree  *)
(* is a function from the relative paths of its files to their texts; the  *)
(* destination file system (fs) is a function from the paths that exist to *)
(* a file or a directory.                                                  *)
(***************************************************************************)
Slash == "/"

TplSuffix == <<".", "t", "p", "l">>

Directory == [exists |-> TRUE, isdir |-> TRUE]

\* str(path): the segments joined by "/"
RECURSIVE PathStr(_)
PathStr(segs) ==
    IF segs = <<>> THEN <<>>
    ELSE IF Len(segs) = 1 THEN segs[1]
    ELSE segs[1] \o <<Slash>> \o PathStr(Tail(segs))

\* Path(s): the text split at "/", empty segments dropped
RECURSIVE ParsePath(_)
ParsePath(s) ==
    LET at == Find(s, <<Slash>>, 1)
    IN  IF s = <<>> THEN <<>>
        ELSE IF at = 0 THEN <<s>>
        ELSE IF at = 1 THEN ParsePath(From(s, 2))
        ELSE <<Slice(s, 1, at - 1)>> \o ParsePath(From(s, at + 1))

\* fnmatch of a file name against "*.tpl"
IsTpl(path) == path # <<>> /\ EndsWith(path[Len(path)], TplSuffix)

\* template_dir.rglob("*.tpl"): the files of the walk whose name matches,
\* in the order of the walk
rglob(walk) == SelectSeq(walk, IsTpl)

\* a variant that leaves the suffix in place
dest_relative_keep(relative_path) == ParsePath(PathStr(relative_path))

\* Path(str(relative_path)[:-4])
dest_relative(relative_path) ==
    LET str == PathStr(relative_path)
    IN  ParsePath(Slice(str, 1, Len(str) - 4))

\* destination_path.parent.mkdir(parents=True, exist_ok=True)
mkdir_parents(files, path) ==
    [q \in DOMAIN files \cup {SubSeq(path, 1, k) : k \in 1..(Len(path) - 1)} |->
        IF q \in DOMAIN files THEN files[q] ELSE Directory]

\* copy_template_file(template_path, destination_path, context)
copy_template_file(files, tree, template_path, destination_path, context) ==
    LET made     == mkdir_parents(files, destination_path)
        rendered == render_template(tree[template_path], context)
    IN  [q \in DOMAIN made \cup {destination_path} |->
            IF q = destination_path THEN File(rendered) ELSE made[q]]

\* the loop of copy_template_directory over the matches from the i-th on
RECURSIVE CopyFrom(_, _, _, _, _, _, _)
CopyFrom(files, tree, matches, i, destination, context, created_files) ==
    IF i > Len(matches) THEN [files |-> files, result |-> created_files]
    ELSE LET dest_path == destination \o dest_relative(matches[i])
         IN  CopyFrom(copy_template_file(files, tree, matches[i], dest_path, context),
                      tree, matches, i + 1, destination, context,
                      Append(created_files, dest_path))

\* copy_template_directory(template_type, destination, context); walk is
\* the order in which the file system lists the files of the template tree
copy_template_directory(files, tree, walk, destination, context) ==
    CopyFrom(files, tree, rglob(walk), 1, destination, context, <<>>)

(***************************************************************************)
(* Template trees the model starts from: up to MaxFiles files out of a     *)
(* root with two directories, one of them with a directory of its own.     *)
(***************************************************************************)
MainTpl == <<"m", ".", "t", "p", "l">>

InitTpl == <<"i", ".", "t", "p", "l">>

BaseTpl == <<"b", ".", "t", "p", "l">>

Readme == <<"n", ".", "m", "d">>

CoreDir == <<"c">>

DbDir == <<"d">>

DeepDir == <<"e">>

TreePaths ==
    {<<MainTpl>>, <<InitTpl>>, <<Readme>>, <<CoreDir, MainTpl>>,
     <<DbDir, BaseTpl>>, <<CoreDir, DeepDir, InitTpl>>}

\* "# {{a}}" and a text without placeholder
TreeTexts == {<<"#", " ", "{", "{", "a", "}", "}">>, <<"x">>}

Trees ==
    UNION {[ps -> TreeTexts] :
              ps \in {qs \in SUBSET TreePaths : Cardinality(qs) <= MaxFiles}}

\* the directory a file is in
Parent(path) == SubSeq(path, 1, Len(path) - 1)

\* the file is in directory dir or below it
Under(dir, path) ==
    Len(dir) < Len(path) /\ SubSeq(path, 1, Len(dir)) = dir

\* The orders in which a walk of the tree can list its files: the files of
\* a directory come together and before those of its subdirectories, a
\* subtree is listed as a whole; the order of the entries of one directory
\* is the file system's.
Walks(tree) ==
    LET n     == Cardinality(DOMAIN tree)
        dirs  == UNION {{SubSeq(q, 1, k) : k \in 0..(Len(q) - 1)} : q \in DOMAIN tree}
        perms == {o \in [1..n -> DOMAIN tree] :
                     \A i, j \in 1..n : o[i] = o[j] => i = j}
    IN  {o \in perms :
            \A d \in dirs :
                /\ \A i, j, k \in 1..n :
                       (i < j /\ j < k /\ Under(d, o[i]) /\ Under(d, o[k]))
                       => Under(d, o[j])
                /\ \A i, j \in 1..n :
                       (i < j /\ Under(d, o[i]) /\ Parent(o[j]) = d)
                       => Parent(o[i]) = d}

Destination == <<<<"o", "u", "t">>>>

\* the destination is missing, is an empty directory, or holds a file of an
\* earlier generation
Destinations ==
    {<<>>,
     (Destination :> Directory),
     (Destination :> Directory) @@ ((Destination \o <<<<"m">>>>) :> File(<<"o", "l", "d">>))}

CopyContexts == {<<>>, (KeyA :> StrVal(Users))}

InitCopy ==
    /\ fs \in Destinations
    /\ \E tree \in Trees, c \in CopyContexts :
           \E walk \in Walks(tree) :
               input = [content |-> tree, context |-> c, order |-> walk]
    /\ log = <<>>

CopyTemplateDirectory ==
    /\ Len(log) < MaxCalls
    /\ UNCHANGED input
    /\ LET r == copy_template_directory(fs, input.content, input.order,
                                       Destination, input.context)
       IN  /\ fs' = r.files
           /\ log' = Append(log, [op     |-> "copy_template_directory",
                                  arg    |-> input.context,
                                  before |-> fs,
                                  after  |-> r.files,
                                  result |-> r.result])

NextCopy == CopyTemplateDirectory

SpecCopy == InitCopy /\ [][NextCopy]_vars

(***************************************************************************)
(* utils/templates.py: to_singular, to_plural                              *)
(*                                                                         *)
(* A call either returns a text or raises; an index past the start of a    *)
(* text raises IndexError.                                                 *)
(***************************************************************************)
Return(t) == [error |-> "", value |-> t]

Raise(e) == [error |-> e, value |-> <<>>]

\* text[:-k]
DropLast(t, k) == IF k >= Len(t) THEN <<>> ELSE SubSeq(t, 1, Len(t) - k)

\* text[-k] is defined
HasFromEnd(t, k) == k <= Len(t)

\* text[-k], where it is defined
FromEnd(t, k) == t[Len(t) - k + 1]

\* the characters of "aeiou" and of "sxz"
Vowels == {"a", "e", "i", "o", "u"}

Sibilants == {"s", "x", "z"}

\* text.endswith(("s", "x", "z", "ch", "sh"))
EndsInSibilant(text) ==
    \/ EndsWith(text, <<"s">>) \/ EndsWith(text, <<"x">>) \/ EndsWith(text, <<"z">>)
    \/ EndsWith(text, <<"c", "h">>) \/ EndsWith(text, <<"s", "h">>)

\* to_singular(text)
to_singular(text) ==
    IF EndsWith(text, <<"i", "e", "s">>)
    THEN Return(DropLast(text, 3) \o <<"y">>)
    ELSE IF EndsWith(text, <<"e", "s">>)
    THEN IF ~HasFromEnd(text, 3) THEN Raise("IndexError")
         ELSE IF FromEnd(text, 3) \in Sibilants THEN Return(DropLast(text, 2))
         ELSE IF EndsWith(text, <<"s">>) /\ ~EndsWith(text, <<"s", "s">>)
         THEN Return(DropLast(text, 1))
         ELSE Return(text)
    ELSE IF EndsWith(text, <<"s">>) /\ ~EndsWith(text, <<"s", "s">>)
    THEN Return(DropLast(text, 1))
    ELSE Return(text)

\* to_plural(text)
to_plural(text) ==
    IF EndsWith(text, <<"y">>)
    THEN IF ~HasFromEnd(text, 2) THEN Raise("IndexError")
         ELSE IF FromEnd(text, 2) \notin Vowels
         THEN Return(DropLast(text, 1) \o <<"i", "e", "s">>)
         ELSE IF EndsInSibilant(text) THEN Return(text \o <<"e", "s">>)
         ELSE Return(text \o <<"s">>)
    ELSE IF EndsInSibilant(text) THEN Return(text \o <<"e", "s">>)
    ELSE Return(text \o <<"s">>)

(***************************************************************************)
(* Words the model starts from: up to MaxWordLen of the letters that the   *)
(* two functions look at.  A call is applied to the word, the next one to  *)
(* what the call before it returned.                                       *)
(***************************************************************************)
WordLetters == {"y", "s", "x", "z", "c", "h", "e", "i"}

Words == SeqsUpTo(WordLetters, MaxWordLen)

InitInflect ==
    /\ fs = EmptyProject
    /\ \E w \in Words : input = [content |-> w, context |-> <<>>]
    /\ log = <<>>

\* the text the next call is applied to
Current == IF log = <<>> THEN input.content ELSE log[Len(log)].after

\* an exception ends the run
Running == Len(log) < MaxCalls /\ (log # <<>> => log[Len(log)].result.error = "")

Called(op, r) ==
    log' = Append(log, [op     |-> op,
                        arg    |-> Current,
                        before |-> Current,
                        after  |-> r.value,
                        result |-> r])

ToSingular == Running /\ UNCHANGED <<fs, input>> /\ Called("to_singular", to_singular(Current))

ToPlural == Running /\ UNCHANGED <<fs, input>> /\ Called("to_plural", to_plural(Current))

NextInflect == ToSingular \/ ToPlural

SpecInflect == InitInflect /\ [][NextInflect]_vars

(***************************************************************************)
(* utils/templates.py: to_pascal_case, to_snake_case                       *)
(***************************************************************************)
UpperChars ==
    <<"A", "B", "C", "D", "E", "F", "G", "H", "I", "J", "K", "L", "M",
      "N", "O", "P", "Q", "R", "S", "T", "U", "V", "W", "X", "Y", "Z">>

LowerChars ==
    <<"a", "b", "c", "d", "e", "f", "g", "h", "i", "j", "k", "l", "m",
      "n", "o", "p", "q", "r", "s", "t", "u", "v", "w", "x", "y", "z">>

\* [A-Z], [a-z] and \d
IsUpper(c) == \E k \in DOMAIN UpperChars : UpperChars[k] = c

IsLower(c) == \E k \in DOMAIN LowerChars : LowerChars[k] = c

IsDigit(c) == c \in Digits

\* str.lower and str.upper on one character
Lower(c) ==
    IF IsUpper(c) THEN LowerChars[CHOOSE k \in DOMAIN UpperChars : UpperChars[k] = c]
    ELSE c

Upper(c) ==
    IF IsLower(c) THEN UpperChars[CHOOSE k \in DOMAIN LowerChars : LowerChars[k] = c]
    ELSE c

\* text.lower()
LowerText(t) == [k \in 1..Len(t) |-> Lower(t[k])]

\* word.capitalize()
Capitalize(w) ==
    IF w = <<>> THEN <<>>
    ELSE <<Upper(w[1])>> \o [k \in 1..(Len(w) - 1) |-> Lower(w[k + 1])]

\* the position after a greedy [A-Z]* that starts at i
RECURSIVE SkipUpper(_, _)
SkipUpper(t, i) ==
    IF i <= Len(t) /\ IsUpper(t[i]) THEN SkipUpper(t, i + 1) ELSE i

\* ([A-Z]+)([A-Z][a-z]) tried at i with group 1 ending at k, then at k - 1
\* and so on: the end of the match, 0 if there is none
RECURSIVE BacktrackAcronym(_, _, _)
BacktrackAcronym(t, i, k) ==
    IF k < i THEN 0
    ELSE IF k + 2 <= Len(t) /\ IsUpper(t[k + 1]) /\ IsLower(t[k + 2]) THEN k + 2
    ELSE BacktrackAcronym(t, i, k - 1)

MatchAcronym(t, i) == BacktrackAcronym(t, i, SkipUpper(t, i) - 1)

\* re.sub(r"([A-Z]+)([A-Z][a-z])", r"\1_\2", text) from position i on
RECURSIVE SubAcronym(_, _)
SubAcronym(t, i) ==
    IF i > Len(t) THEN <<>>
    ELSE LET end == MatchAcronym(t, i)
         IN  IF end = 0 THEN <<t[i]>> \o SubAcronym(t, i + 1)
             ELSE Slice(t, i, end - 2) \o <<"_">> \o Slice(t, end - 1, end)
                  \o SubAcronym(t, end + 1)

\* ([a-z\d])([A-Z]) matches at i
MatchCamel(t, i) ==
    /\ i + 1 <= Len(t)
    /\ (IsLower(t[i]) \/ IsDigit(t[i]))
    /\ IsUpper(t[i + 1])

\* re.sub(r"([a-z\d])([A-Z])", r"\1_\2", text) from position i on
RECURSIVE SubCamel(_, _)
SubCamel(t, i) ==
    IF i > Len(t) THEN <<>>
    ELSE IF MatchCamel(t, i)
    THEN <<t[i], "_", t[i + 1]>> \o SubCamel(t, i + 2)
    ELSE <<t[i]>> \o SubCamel(t, i + 1)

\* [-\s] and [_\-\s]
IsSnakeSep(c) == c = "-" \/ IsSpace(c)

IsPascalSep(c) == c = "_" \/ c = "-" \/ IsSpace(c)

\* re.sub(r"[-\s]+", "_", text) from position i on
RECURSIVE SubSeparators(_, _)
SubSeparators(t, i) ==
    IF i > Len(t) THEN <<>>
    ELSE IF IsSnakeSep(t[i])
    THEN IF i > 1 /\ IsSnakeSep(t[i - 1]) THEN SubSeparators(t, i + 1)
         ELSE <<"_">> \o SubSeparators(t, i + 1)
    ELSE <<t[i]>> \o SubSeparators(t, i + 1)

\* a variant without the first substitution
to_snake_case_camel(text) ==
    Return(LowerText(SubSeparators(SubCamel(text, 1), 1)))

\* to_snake_case(text)
to_snake_case(text) ==
    Return(LowerText(SubSeparators(SubCamel(SubAcronym(text, 1), 1), 1)))

\* re.split(r"[_\-\s]+", text) from position i on, word being the piece
\* read so far
RECURSIVE SplitFrom(_, _, _)
SplitFrom(t, i, word) ==
    IF i > Len(t) THEN <<word>>
    ELSE IF IsPascalSep(t[i])
    THEN IF i > 1 /\ IsPascalSep(t[i - 1]) THEN SplitFrom(t, i + 1, word)
         ELSE <<word>> \o SplitFrom(t, i + 1, <<>>)
    ELSE SplitFrom(t, i + 1, Append(word, t[i]))

\* "".join(word.capitalize() for word in words if word)
RECURSIVE JoinCapitalized(_)
JoinCapitalized(words) ==
    IF words = <<>> THEN <<>>
    ELSE (IF Head(words) # <<>> THEN Capitalize(Head(words)) ELSE <<>>)
         \o JoinCapitalized(Tail(words))

\* to_pascal_case(text)
to_pascal_case(text) == Return(JoinCapitalized(SplitFrom(text, 1, <<>>)))

(***************************************************************************)
(* Names the model starts from: up to MaxNameLen characters out of upper   *)
(* and lower case letters, a digit and the separators.                     *)
(***************************************************************************)
NameChars == {"A", "B", "a", "1", "-", " ", "_"}

Names == SeqsUpTo(NameChars, MaxNameLen)

InitCase ==
    /\ fs = EmptyProject
    /\ \E w \in Names : input = [content |-> w, context |-> <<>>]
    /\ log = <<>>

ToSnakeCase == Running /\ UNCHANGED <<fs, input>> /\ Called("to_snake_case", to_snake_case(Current))

ToPascalCase == Running /\ UNCHANGED <<fs, input>> /\ Called("to_pascal_case", to_pascal_case(Current))

NextCase == ToSnakeCase \/ ToPascalCase

SpecCase == InitCase /\ [][NextCase]_vars

(***************************************************************************)
(* utils/templates.py: create_app_context                                  *)
(***************************************************************************)
ModuleSuffix == <<" ", "m", "o", "d", "u", "l", "e">>

\* create_app_context(app_name): the mapping, or the exception of to_singular
create_app_context(app_name) ==
    LET app_name_snake    == to_snake_case(app_name).value
        app_name_singular == to_singular(app_name_snake)
    IN  IF app_name_singular.error # "" THEN Raise(app_name_singular.error)
        ELSE Return([app_name        |-> app_name_snake,
                     app_name_pascal |-> to_pascal_case(app_name_snake).value,
                     model_name      |-> to_pascal_case(app_name_singular.value).value,
                     table_name      |-> app_name_snake,
                     app_description |->
                         to_pascal_case(app_name_snake).value \o ModuleSuffix])

(***************************************************************************)
(* Raw names the model starts from: up to MaxNameLen characters out of     *)
(* letters of both cases that to_singular looks at, and a hyphen.          *)
(***************************************************************************)
RawChars == {"e", "s", "i", "E", "-"}

RawNames == SeqsUpTo(RawChars, MaxNameLen)

InitContext ==
    /\ fs = EmptyProject
    /\ \E w \in RawNames : input = [content |-> w, context |-> <<>>]
    /\ log = <<>>

CreateAppContext ==
    /\ log = <<>>
    /\ UNCHANGED <<fs, input>>
    /\ LET r == create_app_context(input.content)
       IN  log' = Append(log, [op     |-> "create_app_context",
                               arg    |-> input.content,
                               before |-> input.content,
                               after  |-> r.value,
                               result |-> r])

NextContext == CreateAppContext

SpecContext == InitContext /\ [][NextContext]_vars

(***************************************************************************)
(* createapp.py: validate_app_name                                         *)
(***************************************************************************)
\* the value None, and the three error messages
None == "None"

EmptyMessage == "App name cannot be empty"

MalformedMessage ==
    "App name must start with a letter and contain only lowercase letters, numbers, and underscores"

ReservedMessage == "is a reserved name"

ReservedNames ==
    {<<"a", "p", "p">>, <<"c", "o", "r", "e">>, <<"d", "b">>,
     <<"s", "h", "a", "r", "e", "d">>,
     <<"p", "l", "u", "g", "i", "n", "s">>, <<"t", "e", "s", "t", "s">>}

\* the position after a greedy [a-z0-9_]* that starts at i
RECURSIVE SkipIdentifier(_, _)
SkipIdentifier(t, i) ==
    IF i <= Len(t) /\ (IsLower(t[i]) \/ IsDigit(t[i]) \/ t[i] = "_")
    THEN SkipIdentifier(t, i + 1) ELSE i

\* a variant that takes any first character of the class
MatchIdentifier_anyfirst(name) ==
    name # <<>> /\ SkipIdentifier(name, 1) = Len(name) + 1

\* re.match(r"^[a-z][a-z0-9_]*$", name); $ matches at the end of the text
\* and before a line break that ends it
MatchIdentifier(name) ==
    /\ name # <<>>
    /\ IsLower(name[1])
    /\ LET p == SkipIdentifier(name, 2)
       IN  p = Len(name) + 1 \/ (p = Len(name) /\ name[p] = NL)

\* validate_app_name(name): None or an error message
validate_app_name(raw) ==
    LET name == to_snake_case(raw).value
    IN  IF name = <<>> THEN EmptyMessage
        ELSE IF ~MatchIdentifier(name) THEN MalformedMessage
        ELSE IF name \in ReservedNames THEN ReservedMessage
        ELSE None

(***************************************************************************)
(* Names the validator is applied to: up to MaxNameLen characters, among   *)
(* them those of the reserved names app and db.                            *)
(***************************************************************************)
ValidatedChars == {"a", "p", "d", "b", "D", "1", "_", "-"}

ValidatedNames == SeqsUpTo(ValidatedChars, MaxNameLen)

InitValidate ==
    /\ fs = EmptyProject
    /\ \E w \in ValidatedNames : input = [content |-> w, context |-> <<>>]
    /\ log = <<>>

ValidateAppName ==
    /\ log = <<>>
    /\ UNCHANGED <<fs, input>>
    /\ LET r == validate_app_name(input.content)
       IN  log' = Append(log, [op     |-> "validate_app_name",
                               arg    |-> input.content,
                               before |-> input.content,
                               after  |-> to_snake_case(input.content).value,
                               result |-> r])

NextValidate == ValidateAppName

SpecValidate == InitValidate /\ [][NextValidate]_vars

(***************************************************************************)
(* createapp.py: the createapp command                                     *)
(*                                                                         *)
(* The file system is seen from the current directory, which is the       *)
(* project root when it holds the directory app.  The command runs in     *)
(* steps: the checks before anything is written, one step per template    *)
(* file, and the registration; writing a file can raise, and the handler  *)
(* of the command then cleans up.  The log holds the steps taken.          *)
(***************************************************************************)
AppSeg == <<"a", "p", "p">>

AppsSeg == <<"a", "p", "p", "s">>

CoreSeg == <<"c", "o", "r", "e">>

RegistryName == <<"r", "e", "g", "i", "s", "t", "r", "y", ".", "p", "y">>

AppsDir == <<AppSeg, AppsSeg>>

RegistryFile == <<AppSeg, CoreSeg, RegistryName>>

AppDir(name) == AppsDir \o <<name>>

RootMessage == "Could not find project root"

AppsMessage == "'app/apps/' directory not found"

ExistsMessage == "already exists"

Exit0 == "exit 0"

Exit1 == "exit 1"

Traceback == "traceback"

Generating == "generating"

\* find_project_root(): the current directory, or None
find_project_root(files) ==
    IF <<AppSeg>> \in DOMAIN files /\ files[<<AppSeg>>] = Directory
    THEN "." ELSE None

\* a variant without the check for an existing app directory
preconditions_overwrite(files, raw) ==
    LET error == validate_app_name(raw)
    IN  IF error # None THEN error
        ELSE IF find_project_root(files) = None THEN RootMessage
        ELSE IF AppsDir \notin DOMAIN files THEN AppsMessage
        ELSE None

\* the checks of createapp before it writes: the message of the first one
\* that fails, or None
preconditions(files, raw) ==
    LET error               == validate_app_name(raw)
        app_name_normalized == to_snake_case(raw).value
    IN  IF error # None THEN error
        ELSE IF find_project_root(files) = None THEN RootMessage
        ELSE IF AppsDir \notin DOMAIN files THEN AppsMessage
        ELSE IF AppDir(app_name_normalized) \in DOMAIN files THEN ExistsMessage
        ELSE None

AppNameKey == <<"a", "p", "p", "_", "n", "a", "m", "e">>

AppNamePascalKey ==
    <<"a", "p", "p", "_", "n", "a", "m", "e", "_", "p", "a", "s", "c", "a", "l">>

ModelNameKey == <<"m", "o", "d", "e", "l", "_", "n", "a", "m", "e">>

TableNameKey == <<"t", "a", "b", "l", "e", "_", "n", "a", "m", "e">>

AppDescriptionKey ==
    <<"a", "p", "p", "_", "d", "e", "s", "c", "r", "i", "p", "t", "i", "o", "n">>

\* the mapping create_app_context returns, as render_template reads it
ContextDict(c) ==
    (AppNameKey :> StrVal(c.app_name))
    @@ (AppNamePascalKey :> StrVal(c.app_name_pascal))
    @@ (ModelNameKey :> StrVal(c.model_name))
    @@ (TableNameKey :> StrVal(c.table_name))
    @@ (AppDescriptionKey :> StrVal(c.app_description))

\* the app template: two of its files, "# {{app_name}}" and
\* "class {{model_name}}"
AppTemplate ==
    (<<InitTpl>> :> (<<"#", " ", "{", "{">> \o AppNameKey \o <<"}", "}">>))
    @@ (<<MainTpl>> :>
          (<<"c", "l", "a", "s", "s", " ", "{", "{">> \o ModelNameKey \o <<"}", "}">>))

\* a variant that leaves the directory in place
rmtree_keep(files, dir) == files

\* shutil.rmtree(dir)
rmtree(files, dir) ==
    [q \in {r \in DOMAIN files : r # dir /\ ~Under(dir, r)} |-> files[q]]

\* the handler of createapp for an exception of the generation
cleanup(files, app_dir) ==
    IF app_dir \in DOMAIN files THEN rmtree(files, app_dir) ELSE files

\* the name the command works with
Normalized == to_snake_case(input.content).value

\* the matches of copy_template_directory, in the order of the walk
Matches == rglob(input.order)

\* the command is in the loop of copy_template_directory
InGeneration ==
    /\ log # <<>>
    /\ \/ log[Len(log)].op = "createapp" /\ log[Len(log)].result = Generating
       \/ log[Len(log)].op = "copy_template_file"

\* the files the loop has written
Written == Len(log) - 1

Step(op, arg, after, result) ==
    [op |-> op, arg |-> arg, before |-> fs, after |-> after, result |-> result]

(***************************************************************************)
(* Projects the command starts in: outside a project, a project without   *)
(* app/apps, and projects with or without registry and with or without an *)
(* app directory ab of an earlier run.                                     *)
(***************************************************************************)
OldApp == <<"a", "b">>

CreateAppNames ==
    {<<>>, <<"d", "b">>, <<"1", "a">>, OldApp, <<"a", "-", "b">>, <<"e", "s">>}

RegistryOfProject ==
    {ListText(<<>>, HeadAnnotated, <<NL>>),
     ListText(<<>>, HeadAnnotated, <<NL>> \o EntryBare),
     ListText(<<>>, HeadAnnotated, <<NL>> \o Indent \o DQ(OldApp) \o <<",", NL>>),
     PreOtherSetting}

Outside == <<>>

WithoutApps == (<<AppSeg>> :> Directory) @@ (<<AppSeg, CoreSeg>> :> Directory)

WithApps == WithoutApps @@ (AppsDir :> Directory)

WithOldApp ==
    (AppDir(OldApp) :> Directory)
    @@ ((AppDir(OldApp) \o <<<<"m">>>>) :> File(<<"o", "l", "d">>))

Projects ==
    {Outside, WithoutApps}
    \cup {p @@ r @@ o : p \in {WithApps},
                        r \in {<<>>} \cup {(RegistryFile :> File(t)) : t \in RegistryOfProject},
                        o \in {<<>>, WithOldApp}}

InitCreateApp ==
    /\ fs \in Projects
    /\ \E raw \in CreateAppNames, walk \in Walks(AppTemplate) :
           input = [content |-> raw, context |-> <<>>, order |-> walk]
    /\ log = <<>>

\* createapp up to the call of copy_template_directory
CreateAppChecks ==
    /\ log = <<>>
    /\ UNCHANGED <<fs, input>>
    /\ LET error   == preconditions(fs, input.content)
           context == create_app_context(Normalized)
       IN  log' = Append(log, Step("createapp", input.content, fs,
                                   IF error # None THEN Exit1
                                   ELSE IF context.error # "" THEN Traceback
                                   ELSE Generating))

\* one round of the loop of copy_template_directory
CopyTemplateFile ==
    /\ InGeneration
    /\ Written < Len(Matches)
    /\ UNCHANGED input
    /\ LET template_path == Matches[Written + 1]
           dest_path     == AppDir(Normalized) \o dest_relative(template_path)
           context       == ContextDict(create_app_context(Normalized).value)
       IN  /\ fs' = copy_template_file(fs, AppTemplate, template_path, dest_path, context)
           /\ log' = Append(log, Step("copy_template_file", dest_path, fs', "written"))

\* copy_template_file raises, before or after it made the directory; the
\* handler of createapp removes the app directory and exits
GenerationRaises ==
    /\ InGeneration
    /\ Written < Len(Matches)
    /\ UNCHANGED input
    /\ \E made \in BOOLEAN :
           LET dest_path == AppDir(Normalized) \o dest_relative(Matches[Written + 1])
               left      == IF made THEN mkdir_parents(fs, dest_path) ELSE fs
           IN  /\ fs' = cleanup(left, AppDir(Normalized))
               /\ log' = Append(log, Step("except", left, fs', Exit1))

\* createapp after the files were written
Register ==
    /\ InGeneration
    /\ Written = Len(Matches)
    /\ UNCHANGED input
    /\ fs' = IF RegistryFile \in DOMAIN fs
             THEN [fs EXCEPT ![RegistryFile] =
                      add_to_installed_apps(fs[RegistryFile], Normalized).file]
             ELSE fs
    /\ log' = Append(log, Step("register", Normalized, fs', Exit0))

NextCreateApp ==
    \/ CreateAppChecks
    \/ CopyTemplateFile
    \/ GenerationRaises
    \/ Register

SpecCreateApp == InitCreateApp /\ [][NextCreateApp]_vars

(***************************************************************************)
(* Claims about add_to_installed_apps (checked under SpecRegistry).        *)
(***************************************************************************)
IsAdd(c) == c.op = "add_to_installed_apps"

\* the text has an INSTALLED_APPS list that the pattern finds
HasInstalledAppsList(t) == SearchList(t, 1) # 0

\* the name occurs in the text in double or in single quotes
QuotedOccurs(t, n) == Contains(t, DQ(n)) \/ Contains(t, SQ(n))

\* two calls in a row with the same name, on a file that has the list and
\* does not mention the quoted name
FreshPair(i) ==
    /\ i >= 1 /\ i + 1 <= Len(log)
    /\ IsAdd(log[i]) /\ IsAdd(log[i + 1])
    /\ log[i].arg = log[i + 1].arg
    /\ log[i].before.exists
    /\ HasInstalledAppsList(log[i].before.text)
    /\ ~QuotedOccurs(log[i].before.text, log[i].arg)

\* C1: adding the same name twice to a registry that has the list and does
\* not yet mention the quoted name returns True both times, the second call
\* leaves the text of the first, and the double-quoted name occurs once.
C1_AddTwiceIsIdempotent ==
    \A i \in 1..(Len(log) - 1) :
        FreshPair(i) =>
            /\ log[i].result
            /\ log[i + 1].result
            /\ log[i + 1].after = log[i].after
            /\ Count(log[i + 1].after.text, DQ(log[i].arg)) = 1

C1_Witness ==
    /\ FreshPair(1)
    /\ log[1].after # log[1].before
    /\ log[2].after = log[1].after

\* registry texts whose list body is one comment line and nothing else
CommentOnlyTexts ==
    {ListText(p, HeadAnnotated, <<NL>> \o CommentLine) : p \in Preambles}

\* C2: on a list body that holds only a comment line the new entry is
\* inserted and the comment keeps its text: it still ends its line, with no
\* character added to it.
C2_CommentUndisturbed ==
    \A i \in 1..Len(log) :
        ( /\ IsAdd(log[i])
          /\ log[i].before.exists
          /\ log[i].before.text \in CommentOnlyTexts
          /\ ~QuotedOccurs(log[i].before.text, log[i].arg) )
        => /\ log[i].result
           /\ Contains(log[i].after.text, DQ(log[i].arg))
           /\ Contains(log[i].after.text, CommentText \o <<NL>>)

\* C3: on a file that does not exist, or whose text has no annotated
\* INSTALLED_APPS list, the call returns False and changes nothing.
C3_NoListReturnsFalse ==
    \A i \in 1..Len(log) :
        ( /\ IsAdd(log[i])
          /\ (~log[i].before.exists \/ log[i].before.text \in NoListTexts) )
        => /\ ~log[i].result
           /\ log[i].after = log[i].before

\* list bodies without a bracket of their own
FlatBodies == {b \in Bodies : ~Contains(b, <<"]">>)}

\* the text is the one list, and its content ends with the new entry
EndsWithEntry(t, pre, n) ==
    /\ StartsWithAt(t, 1, pre \o HeadAnnotated)
    /\ EndsWith(t, <<"]", NL>>)
    /\ EndsWith(RStrip(Slice(t, 1, Len(t) - 2)), NewEntry(n))
    /\ Count(t, DQ(n)) = 1

\* C4: when the list is found, the name counts as registered (True, text
\* unchanged) exactly when it occurs quoted inside the brackets; otherwise
\* "name", is inserted as the last element, on a line of its own.
C4_RegisteredIffInList ==
    \A i \in 1..Len(log) :
        \A p \in Preambles, b \in FlatBodies :
            ( /\ IsAdd(log[i])
              /\ log[i].before = File(ListText(p, HeadAnnotated, b)) )
            => /\ log[i].result
               /\ IF QuotedOccurs(b, log[i].arg)
                  THEN log[i].after = log[i].before
                  ELSE EndsWithEntry(log[i].after.text, p, log[i].arg)

(***************************************************************************)
(* Claims about update_config_engine (checked under SpecConfig).           *)
(***************************************************************************)
IsConfigCall(c) == c.op = "update_config_engine"

\* the config text with one assignment line: the lines before it, the
\* assignment up to its value, the quoted value, and the lines after it
ConfigText(b, prefix, q, v, a) == b \o AssignLine(prefix, q, v) \o a

\* the same text with "engine" in place of the quoted value
PatchedText(b, prefix, engine, a) == b \o prefix \o DQ(engine) \o <<NL>> \o a

C6_PlainAssignmentPatched ==
    \A i \in 1..Len(log) :
        \A b \in ConfigBefore, q \in Quotes, v \in OldValues, a \in ConfigAfter :
            ( /\ IsConfigCall(log[i])
              /\ log[i].before = File(ConfigText(b, PrefixPlain, q, v, a))
              /\ v # log[i].arg )
            => /\ log[i].result
               /\ log[i].after = File(PatchedText(b, PrefixPlain, log[i].arg, a))

\* config texts without a DATABASE_ENGINE assignment of a quoted value
NoAssignTexts == ConfigTextsOf(NoAssignLines)

\* C7: when config.py does not exist, or holds no DATABASE_ENGINE
\* assignment of a quoted value, the call returns False and writes nothing.
C7_NoAssignmentReturnsFalse ==
    \A i \in 1..Len(log) :
        ( /\ IsConfigCall(log[i])
          /\ (~log[i].before.exists \/ log[i].before.text \in NoAssignTexts) )
        => /\ ~log[i].result
           /\ log[i].after = log[i].before

\* a call on a file whose DATABASE_ENGINE is not a quoted string, and a call
\* on a missing file
C7_Witness ==
    /\ Len(log) >= 1
    /\ IsConfigCall(log[1])
    /\ \/ log[1].before = File(OtherLine \o UnquotedLine \o QuotedCommentLine)
       \/ log[1].before = NoFile
    /\ ~log[1].result

(***************************************************************************)
(* Claims about update_env_file (checked under SpecEnv).                   *)
(***************************************************************************)
IsEnvCall(c) == c.op = "update_env_file"

\* the lines with every DATABASE_ENGINE line set to the engine
SetEngineLines(ls, engine) ==
    [k \in 1..Len(ls) |->
        IF ls[k] \in EngineLines THEN EngineLineOf(engine) ELSE ls[k]]

\* C8: with an engine other than sqlite, a line DATABASE_ENGINE=<old> has
\* its whole value replaced by the engine and every other line is left as
\* it was.
C8_OnlyEngineLineReplaced ==
    \A i \in 1..Len(log) :
        \A ls \in EnvLineSeqs, nl \in BOOLEAN :
            ( /\ IsEnvCall(log[i])
              /\ log[i].arg # Sqlite
              /\ log[i].before = File(EnvText(ls, nl))
              /\ \E k \in 1..Len(ls) : ls[k] \in EngineLines )
            => log[i].after = File(EnvText(SetEngineLines(ls, log[i].arg), nl))

\* the line break the claim puts before an appended line
Separator(content) ==
    IF content # <<>> /\ ~EndsWith(content, <<NL>>) THEN <<NL>> ELSE <<>>

\* C9: when the text has no DATABASE_ENGINE line, the existing text is kept
\* and one line DATABASE_ENGINE=<engine> is appended, with a line break
\* before it only if the text is not empty and does not end in one; the
\* call returns True and .env exists afterwards.
C9_AppendsOneLine ==
    \A i \in 1..Len(log) :
        LET content == EnvContent(log[i].before, log[i].example)
            line    == Separator(content) \o EngineLineOf(log[i].arg)
        IN  ( /\ IsEnvCall(log[i])
              /\ ~Contains(content, EngineKey)
              /\ (log[i].arg # Sqlite \/ ~Contains(content, UrlKey)) )
            => /\ log[i].result
               /\ log[i].after.exists
               /\ log[i].after.text \in {content \o line, content \o line \o <<NL>>}

(***************************************************************************)
(* Claims about render_template (checked under SpecRender).                *)
(***************************************************************************)
IsRender(c) == c.op = "render_template"

HasBrace(t) == Contains(t, <<"{">>) \/ Contains(t, <<"}">>)

\* no value of the context has a brace in its string form, so none holds
\* placeholder syntax or a part of it
ValuesBraceFree(context) ==
    \A k \in DOMAIN context : ~HasBrace(Str(context[k]))

\* the text without its placeholders
RECURSIVE OutsidePlaceholders(_, _)
OutsidePlaceholders(t, i) ==
    LET at == SearchPlaceholder(t, i)
    IN  IF at = 0 THEN From(t, i)
        ELSE Slice(t, i, at - 1) \o OutsidePlaceholders(t, MatchPlaceholder(t, at) + 1)

\* every brace of the text is one of the four of a placeholder {{id}}
BracesOnlyInPlaceholders(t) == ~HasBrace(OutsidePlaceholders(t, 1))

\* C10 as stated: for every text and every context whose values hold no
\* placeholder syntax, rendering the rendered text again changes nothing.
C10_RenderIdempotent ==
    \A i \in 1..(Len(log) - 1) :
        ( /\ IsRender(log[i]) /\ IsRender(log[i + 1])
          /\ ValuesBraceFree(log[i].arg) )
        => log[i + 1].after = log[i].after

\* C10 (amended): for every text whose braces all belong to placeholders
\* {{id}} and every context whose values hold no brace, rendering the
\* rendered text again changes nothing.
C10_RenderIdempotentOnCleanText ==
    \A i \in 1..(Len(log) - 1) :
        ( /\ IsRender(log[i]) /\ IsRender(log[i + 1])
          /\ ValuesBraceFree(log[i].arg)
          /\ BracesOnlyInPlaceholders(log[i].before) )
        => log[i + 1].after = log[i].after

\* "{{a}}{{a}}" rendered with a = 42 and rendered again
C10_Witness ==
    /\ Len(log) >= 2
    /\ IsRender(log[1]) /\ IsRender(log[2])
    /\ input.context = (KeyA :> IntVal(42))
    /\ log[1].before = <<"{", "{", "a", "}", "}", "{", "{", "a", "}", "}">>
    /\ log[1].after = <<"4", "2", "4", "2">>
    /\ log[2].after = log[1].after

\* t[i..j] is a placeholder {{id}} with id = one or more word characters
IsPlaceholder(t, i, j) ==
    /\ i >= 1 /\ j <= Len(t) /\ j >= i + 4
    /\ t[j] = "}" /\ t[j - 1] = "}"
    /\ t[i] = "{" /\ t[i + 1] = "{"
    /\ \A k \in (i + 2)..(j - 2) : IsWord(t[k])

\* the end of the placeholder that starts at i, 0 if none starts there
PlaceholderEnd(t, i) ==
    IF t[i] = "{" /\ \E j \in (i + 4)..Len(t) : IsPlaceholder(t, i, j)
    THEN CHOOSE j \in (i + 4)..Len(t) : IsPlaceholder(t, i, j)
    ELSE 0

\* The rendered text from position p of the template on: where a
\* placeholder starts, the string form of the value (or the placeholder
\* itself when its id is not a key) and then what follows the placeholder;
\* elsewhere the character itself.
RECURSIVE ExpectedFrom(_, _, _)
ExpectedFrom(t, context, p) ==
    IF p > Len(t) THEN <<>>
    ELSE LET end == PlaceholderEnd(t, p)
             id  == Slice(t, p + 2, end - 2)
         IN  IF end = 0 THEN <<t[p]>> \o ExpectedFrom(t, context, p + 1)
             ELSE (IF id \in DOMAIN context THEN Str(context[id])
                   ELSE Slice(t, p, end))
                  \o ExpectedFrom(t, context, end + 1)

ExpectedRender(t, context) == ExpectedFrom(t, context, 1)

HasPlaceholder(t) == \E i \in 1..Len(t) : PlaceholderEnd(t, i) # 0

\* C11: render_template replaces every placeholder {{id}} whose id is a key
\* of the context by the string form of the value, leaves every other
\* placeholder and all text outside placeholders as they are, and always
\* returns a text; with an empty context or a text without placeholders the
\* result is the input.  (Stated of the latest call: every call is the
\* latest one in the state it leads to.)
C11_RenderContract ==
    (log # <<>> /\ IsRender(log[Len(log)])) =>
        LET call == log[Len(log)]
        IN  /\ call.after \in Seq(STRING)
            /\ call.after = ExpectedRender(call.before, call.arg)
            /\ (DOMAIN call.arg = {}) => call.after = call.before
            /\ ~HasPlaceholder(call.before) => call.after = call.before

\* "{{a}}" rendered with a = "{{b}}" gives "{{b}}"; rendered again, b is
\* not a key and the placeholder stays
C11_Witness ==
    /\ Len(log) >= 2
    /\ IsRender(log[1]) /\ IsRender(log[2])
    /\ input.context = (KeyA :> StrVal(<<"{", "{", "b", "}", "}">>))
    /\ log[1].before = <<"{", "{", "a", "}", "}">>
    /\ log[1].after = <<"{", "{", "b", "}", "}">>
    /\ log[2].after = <<"{", "{", "b", "}", "}">>

(***************************************************************************)
(* Claims about copy_template_directory (checked under SpecCopy).          *)
(***************************************************************************)
IsCopy(c) == c.op = "copy_template_directory"

\* the template files of a tree: the files whose name ends in .tpl
TemplateFiles(tree) ==
    {p \in DOMAIN tree : EndsWith(p[Len(p)], TplSuffix)}

\* destination / (the relative path with .tpl taken off its last segment)
ExpectedDest(p) ==
    LET name == p[Len(p)]
    IN  Destination \o Parent(p) \o <<SubSeq(name, 1, Len(name) - Len(TplSuffix))>>

\* the directories above a path
Ancestors(path) == {SubSeq(path, 1, k) : k \in 1..(Len(path) - 1)}

\* C12: copy_template_directory writes, for every template file of the
\* tree, one file at destination / (relative path without the .tpl of its
\* last segment) that holds the rendered template text, creates the missing
\* directories above it, writes no other file, and returns these
\* destination paths, one per template file.
C12_CopyContract ==
    \A i \in 1..Len(log) :
        IsCopy(log[i]) =>
            LET tree    == input.content
                tpls    == TemplateFiles(tree)
                dests   == {ExpectedDest(p) : p \in tpls}
                parents == UNION {Ancestors(q) : q \in dests}
                after   == log[i].after
                before  == log[i].before
            IN  /\ \A p \in tpls :
                       /\ ExpectedDest(p) \in DOMAIN after
                       /\ after[ExpectedDest(p)]
                              = File(render_template(tree[p], log[i].arg))
                /\ \A q \in parents : q \in DOMAIN after /\ after[q] = Directory
                /\ Len(log[i].result) = Cardinality(tpls)
                /\ {log[i].result[k] : k \in 1..Len(log[i].result)} = dests
                /\ DOMAIN after = DOMAIN before \cup dests \cup parents
                /\ \A q \in DOMAIN before \ dests : after[q] = before[q]

\* the tree c/m.tpl ("# {{a}}") with a file that is not a template, copied
\* with a = "users" to a destination that does not exist
C12_Witness ==
    /\ Len(log) >= 1
    /\ IsCopy(log[1])
    /\ DOMAIN input.content = {<<CoreDir, MainTpl>>, <<Readme>>}
    /\ input.context = (KeyA :> StrVal(Users))
    /\ log[1].before = <<>>
    /\ log[1].result = <<Destination \o <<CoreDir, <<"m">>>>>>
    /\ log[1].after[Destination \o <<CoreDir, <<"m">>>>]
           = File(<<"#", " ">> \o Users)
    /\ log[1].after[Destination \o <<CoreDir>>] = Directory

\* the characters of the model's paths in the order of their code points
CodePoints ==
    <<".", "/", "_", "a", "b", "c", "d", "e", "f", "g", "h", "i", "j", "k",
      "l", "m", "n", "o", "p", "q", "r", "s", "t", "u", "v", "w", "x", "y", "z">>

Ord(c) == CHOOSE k \in DOMAIN CodePoints : CodePoints[k] = c

\* a < b in the lexicographic order of texts
RECURSIVE LexLess(_, _)
LexLess(a, b) ==
    IF b = <<>> THEN FALSE
    ELSE IF a = <<>> THEN TRUE
    ELSE IF a[1] # b[1] THEN Ord(a[1]) < Ord(b[1])
    ELSE LexLess(Tail(a), Tail(b))

\* C13 as stated: copy_template_directory returns the destination paths in
\* the lexicographic order of the relative paths, so that two runs over the
\* same tree return the same list.
C13_LexicographicOrder ==
    /\ \A i \in 1..Len(log) :
           IsCopy(log[i]) =>
               \A j, k \in 1..Len(log[i].result) :
                   j < k => LexLess(PathStr(log[i].result[j]),
                                    PathStr(log[i].result[k]))
    /\ \A i, j \in 1..Len(log) :
           (IsCopy(log[i]) /\ IsCopy(log[j])) => log[i].result = log[j].result

(***************************************************************************)
(* Claims about to_singular and to_plural (checked under SpecInflect).     *)
(***************************************************************************)
IsPlural(c) == c.op = "to_plural"

IsSingular(c) == c.op = "to_singular"

Returned(c) == c.result.error = ""

\* C14 as stated: to_pascal_case, to_snake_case, to_singular and to_plural
\* return a text for every input, the empty one and those of one or two
\* characters included; none raises.
C14_NeverRaises ==
    \A i \in 1..Len(log) :
        log[i].op \in {"to_pascal_case", "to_snake_case", "to_singular", "to_plural"}
        => Returned(log[i])

\* C15 as stated: to_plural of the empty text is the empty text.
C15_PluralOfEmptyIsEmpty ==
    \A i \in 1..Len(log) :
        (IsPlural(log[i]) /\ log[i].before = <<>>)
        => (Returned(log[i]) /\ log[i].after = <<>>)

\* the word ends in y and the character before the y is not a vowel
EndsInConsonantY(w) ==
    /\ EndsWith(w, <<"y">>)
    /\ Len(w) >= 2
    /\ w[Len(w) - 1] \notin {"a", "e", "i", "o", "u"}

\* the plural of the rule: y -> ies after a consonant, es after s, x, z,
\* ch and sh, s otherwise
RulePlural(w) ==
    IF EndsInConsonantY(w) THEN SubSeq(w, 1, Len(w) - 1) \o <<"i", "e", "s">>
    ELSE IF \E e \in {<<"s">>, <<"x">>, <<"z">>, <<"c", "h">>, <<"s", "h">>} :
                EndsWith(w, e)
    THEN w \o <<"e", "s">>
    ELSE w \o <<"s">>

\* C16 as stated: for every non-empty word to_plural returns the plural of
\* the rule.  (For the word "y", which has no character before the y, both
\* "ies" and "ys" are taken as the rule's plural.)
C16_PluralRule ==
    \A i \in 1..Len(log) :
        (IsPlural(log[i]) /\ log[i].before # <<>>)
        => /\ Returned(log[i])
           /\ \/ log[i].after = RulePlural(log[i].before)
              \/ log[i].before = <<"y">> /\ log[i].after = <<"i", "e", "s">>

\* C17 as stated: for a word that ends in z, to_plural returns the word
\* followed by "zes".
C17_FinalZDoubled ==
    \A i \in 1..Len(log) :
        (IsPlural(log[i]) /\ EndsWith(log[i].before, <<"z">>))
        => (Returned(log[i]) /\ log[i].after = log[i].before \o <<"z", "e", "s">>)

\* the singular of the rule: ies -> y; es dropped after s, x, z; a final s
\* that is not a double s dropped; anything else unchanged
RuleSingular(w) ==
    IF EndsWith(w, <<"i", "e", "s">>) THEN SubSeq(w, 1, Len(w) - 3) \o <<"y">>
    ELSE IF /\ EndsWith(w, <<"e", "s">>)
            /\ Len(w) >= 3
            /\ w[Len(w) - 2] \in {"s", "x", "z"}
    THEN SubSeq(w, 1, Len(w) - 2)
    ELSE IF EndsWith(w, <<"s">>) /\ ~EndsWith(w, <<"s", "s">>)
    THEN SubSeq(w, 1, Len(w) - 1)
    ELSE w

\* C18 as stated: for every word to_singular returns the singular of the
\* rule.
C18_SingularRule ==
    \A i \in 1..Len(log) :
        IsSingular(log[i])
        => (Returned(log[i]) /\ log[i].after = RuleSingular(log[i].before))

\* C19 as stated: for every word that does not end in s, to_singular of
\* its to_plural is the word again (the plural being a regular -s plural,
\* an -es plural after s, x, z, ch or sh, or an -ies plural of consonant +
\* y, which are all the plurals to_plural forms).
C19_PluralRoundTrips ==
    \A i \in 1..(Len(log) - 1) :
        ( /\ IsPlural(log[i]) /\ Returned(log[i])
          /\ IsSingular(log[i + 1])
          /\ ~EndsWith(log[i].before, <<"s">>) )
        => (Returned(log[i + 1]) /\ log[i + 1].after = log[i].before)

(***************************************************************************)
(* Claims about to_snake_case (checked under SpecCase).                    *)
(***************************************************************************)
IsSnake(c) == c.op = "to_snake_case"

\* An underscore belongs before position p of the text: p is the last
\* upper case letter of a run of two or more that a lower case letter
\* follows, or p is an upper case letter right after a lower case letter or
\* a digit.
UnderscoreBefore(t, p) ==
    /\ p > 1
    /\ IsUpper(t[p])
    /\ \/ IsUpper(t[p - 1]) /\ p < Len(t) /\ IsLower(t[p + 1])
       \/ IsLower(t[p - 1]) \/ IsDigit(t[p - 1])

\* the text with these underscores put in
WithUnderscores(t) ==
    Concat([p \in 1..Len(t) |->
               IF UnderscoreBefore(t, p) THEN <<"_", t[p]>> ELSE <<t[p]>>])

\* every run of "-" and whitespace replaced by one underscore, every other
\* character in lower case
RuleSnake(t) ==
    LET u == WithUnderscores(t)
    IN  Concat([p \in 1..Len(u) |->
                   IF u[p] = "-" \/ IsSpace(u[p])
                   THEN IF p > 1 /\ (u[p - 1] = "-" \/ IsSpace(u[p - 1]))
                        THEN <<>> ELSE <<"_">>
                   ELSE <<Lower(u[p])>>])

\* C20: to_snake_case puts an underscore before the last upper case letter
\* of a run of two or more that a lower case letter follows, and between a
\* lower case letter or digit and an upper case letter right after it; it
\* then replaces every run of "-" and whitespace by one underscore and
\* lowercases the text.  The result holds no upper case letter, no hyphen
\* and no whitespace.
C20_SnakeCaseRule ==
    \A i \in 1..Len(log) :
        IsSnake(log[i])
        => /\ Returned(log[i])
           /\ log[i].after = RuleSnake(log[i].before)
           /\ \A k \in 1..Len(log[i].after) :
                  LET c == log[i].after[k]
                  IN  ~IsUpper(c) /\ c # "-" /\ ~IsSpace(c)

\* "ABa" (as HTTPServer) gives "a_ba", "aB-a" (as orderItems and
\* user-profile) gives "a_b_a"
C20_Witness ==
    /\ Len(log) >= 1
    /\ IsSnake(log[1])
    /\ \/ log[1].before = <<"A", "B", "a">> /\ log[1].after = <<"a", "_", "b", "a">>
       \/ log[1].before = <<"a", "B", "-", "a">>
            /\ log[1].after = <<"a", "_", "b", "_", "a">>

(***************************************************************************)
(* Claims about create_app_context (checked under SpecContext).            *)
(***************************************************************************)
\* C21 as stated: for every raw name create_app_context returns a mapping
\* with app_name = table_name = to_snake_case(raw), app_name_pascal =
\* to_pascal_case(app_name), model_name = to_pascal_case(to_singular(
\* app_name)) and an app_description that contains app_name_pascal.
C21_ContextOfEveryName ==
    \A i \in 1..Len(log) :
        log[i].op = "create_app_context" =>
            /\ Returned(log[i])
            /\ LET m == log[i].after
               IN  /\ m.app_name = to_snake_case(log[i].arg).value
                   /\ m.table_name = m.app_name
                   /\ m.app_name_pascal = to_pascal_case(m.app_name).value
                   /\ to_singular(m.app_name).error = ""
                   /\ m.model_name
                          = to_pascal_case(to_singular(m.app_name).value).value
                   /\ Contains(m.app_description, m.app_name_pascal)

(***************************************************************************)
(* Claims about validate_app_name (checked under SpecValidate).            *)
(***************************************************************************)
\* a lowercase identifier: a lower case letter, then lower case letters,
\* digits and underscores
IsIdentifier(name) ==
    /\ name # <<>>
    /\ IsLower(name[1])
    /\ \A k \in 1..Len(name) : IsLower(name[k]) \/ IsDigit(name[k]) \/ name[k] = "_"

\* C23: validate_app_name returns None exactly when the snake_case form of
\* the name is a non-empty lowercase identifier and none of app, core, db,
\* shared, plugins, tests; otherwise it returns an error message.
C23_ValidExactlyIdentifiers ==
    \A i \in 1..Len(log) :
        log[i].op = "validate_app_name" =>
            LET snake == RuleSnake(log[i].arg)
                ok    == IsIdentifier(snake) /\ snake \notin ReservedNames
            IN  /\ ok <=> log[i].result = None
                /\ ~ok => log[i].result
                              \in {EmptyMessage, MalformedMessage, ReservedMessage}

\* "a-b" is valid (as a_b), "Db" is reserved (as db), "1a" is malformed
C23_Witness ==
    /\ Len(log) >= 1
    /\ log[1].op = "validate_app_name"
    /\ \/ log[1].arg = <<"a", "-", "b">> /\ log[1].result = None
       \/ log[1].arg = <<"D", "b">> /\ log[1].result = ReservedMessage
       \/ log[1].arg = <<"1", "a">> /\ log[1].result = MalformedMessage

(***************************************************************************)
(* Claims about the createapp command (checked under SpecCreateApp).       *)
(***************************************************************************)
\* a precondition of createapp fails: the name is invalid or reserved, no
\* project root, no app/apps, or the app directory exists
PreconditionFails(files, raw) ==
    LET snake == RuleSnake(raw)
    IN  \/ ~IsIdentifier(snake)
        \/ snake \in ReservedNames
        \/ <<AppSeg>> \notin DOMAIN files
        \/ AppsDir \notin DOMAIN files
        \/ AppDir(snake) \in DOMAIN files

\* C22: when a precondition of createapp fails the command exits with code
\* 1 and the file system stays as it was: no file is written, an existing
\* app directory keeps its contents, registry.py is unchanged.
C22_FailedPreconditionWritesNothing ==
    (log # <<>> /\ PreconditionFails(log[1].before, input.content)) =>
        /\ Len(log) = 1
        /\ log[1].result = Exit1
        /\ fs = log[1].before

\* createapp ab was run in a project that has app/apps/ab with a file in it
C22_Witness ==
    /\ log # <<>>
    /\ input.content = OldApp
    /\ AppDir(OldApp) \in DOMAIN log[1].before
    /\ log[1].result = Exit1
    /\ fs[AppDir(OldApp) \o <<<<"m">>>>] = File(<<"o", "l", "d">>)

\* what is in the app directory
AppFiles(files, name) == {q \in DOMAIN files : q = AppDir(name) \/ Under(AppDir(name), q)}

\* every file of the template is in the app directory
Complete(files, name) ==
    \A t \in DOMAIN AppTemplate :
        IsTpl(t) =>
            LET file == t[Len(t)]
                dest == AppDir(name) \o Parent(t)
                            \o <<SubSeq(file, 1, Len(file) - Len(TplSuffix))>>
            IN  dest \in DOMAIN files /\ files[dest].exists

RegistryOf(files) == IF RegistryFile \in DOMAIN files THEN files[RegistryFile] ELSE NoFile

\* C27: createapp changes registry.py only in a step that starts with all
\* template files written; when the generation raises, the step that
\* handles it leaves no app directory, leaves registry.py as it was at the
\* start and exits with code 1.
C27_RegisteredOnlyWhenComplete ==
    \A i \in 1..Len(log) :
        /\ RegistryOf(log[i].after) # RegistryOf(log[i].before) =>
               /\ log[i].op = "register"
               /\ Complete(log[i].before, Normalized)
               /\ Complete(log[i].after, Normalized)
        /\ log[i].op = "except" =>
               /\ AppFiles(log[i].after, Normalized) = {}
               /\ RegistryOf(log[i].after) = RegistryOf(log[1].before)
               /\ log[i].result = Exit1
               /\ i = Len(log)

\* the generation raised after one file was written and its directory made
C27_Witness ==
    /\ Len(log) = 3
    /\ log[2].op = "copy_template_file"
    /\ log[3].op = "except"
    /\ AppFiles(log[3].before, Normalized) # {}
    /\ RegistryFile \in DOMAIN fs

(***************************************************************************)
(* Further claims about add_to_installed_apps (SpecRegistry, SpecListing)  *)
(***************************************************************************)
\* what Python reads of a list body: the text without its comments (from a
\* "#" to the end of the line) and without white space
RECURSIVE VisibleFrom(_, _, _)
VisibleFrom(t, i, in_comment) ==
    IF i > Len(t) THEN <<>>
    ELSE IF in_comment THEN VisibleFrom(t, i + 1, t[i] # NL)
    ELSE IF t[i] = "#" THEN VisibleFrom(t, i + 1, TRUE)
    ELSE IF IsSpace(t[i]) THEN VisibleFrom(t, i + 1, FALSE)
    ELSE <<t[i]>> \o VisibleFrom(t, i + 1, FALSE)

Visible(t) == VisibleFrom(t, 1, FALSE)

\* the text between the head of the list and the closing "]" + line break
BodyOf(t, pre) == Slice(t, Len(pre \o HeadAnnotated) + 1, Len(t) - 2)

\* C24: when a new entry is inserted, the visible content of the body gets
\* a comma after the previous last entry if it had none, no second comma
\* if it had one, and then the new entry with its comma; also when the
\* last entry's line carries a trailing comment.
C24_CommaSeparatesEntries ==
    \A i \in 1..Len(log) :
        \A p \in Preambles, b \in FlatBodies :
            ( /\ IsAdd(log[i])
              /\ log[i].before = File(ListText(p, HeadAnnotated, b))
              /\ ~QuotedOccurs(log[i].before.text, log[i].arg) )
            => LET old == Visible(b)
                   new == Visible(BodyOf(log[i].after.text, p))
               IN  new = (IF old = <<>> \/ EndsWith(old, <<",">>)
                          THEN old ELSE old \o <<",">>)
                         \o DQ(log[i].arg) \o <<",">>

\* C25: on a list body with a bracket of its own (a "]" inside a comment)
\* the call returns False and leaves the file as it was.
C25_BracketInBodyReturnsFalse ==
    \A i \in 1..Len(log) :
        \A p \in Preambles, b \in Bodies \ FlatBodies :
            ( /\ IsAdd(log[i])
              /\ log[i].before = File(ListText(p, HeadAnnotated, b))
              /\ ~QuotedOccurs(log[i].before.text, log[i].arg) )
            => /\ ~log[i].result
               /\ log[i].after = log[i].before

\* the elements of a sequence
Range(q) == {q[k] : k \in 1..Len(q)}

\* C26: after a call of add_to_installed_apps that returned True,
\* get_installed_apps lists the name and check_installed_apps reports a
\* result for it.
C26_RegistrationSeenByAll ==
    \A i \in 1..Len(log) :
        \A j \in (i + 1)..Len(log) :
            (IsAdd(log[i]) /\ log[i].result) =>
                /\ log[j].op = "get_installed_apps" => log[i].arg \in Range(log[j].result)
                /\ log[j].op = "check_installed_apps" =>
                       \E r \in Range(log[j].result) : r[1] = log[i].arg

(***************************************************************************)
(* Further claims about update_config_engine (checked under SpecConfig).   *)
(***************************************************************************)
\* C28: update_config_engine returns True exactly when it left a different
\* text; on a file whose annotated DATABASE_ENGINE is already "engine" in
\* double quotes it returns False and leaves the file; and a call that
\* returned True is followed, for the same engine, by a call that returns
\* False and leaves the same text.
C28_TrueExactlyWhenRewritten ==
    \A i \in 1..Len(log) :
        IsConfigCall(log[i]) =>
            /\ log[i].result <=> log[i].after # log[i].before
            /\ \A b \in ConfigBefore, p \in AnnotatedPrefixes, a \in ConfigAfter :
                   log[i].before = File(ConfigText(b, p, QuoteD, log[i].arg, a))
                   => ~log[i].result /\ log[i].after = log[i].before
            /\ ( /\ i + 1 <= Len(log)
                 /\ IsConfigCall(log[i + 1])
                 /\ log[i + 1].arg = log[i].arg
                 /\ log[i].result )
               => /\ ~log[i + 1].result
                  /\ log[i + 1].after = log[i].after

\* two calls with mysql on a file set to 'sqlite': True, then False
C28_Witness ==
    /\ Len(log) = 2
    /\ IsConfigCall(log[1]) /\ IsConfigCall(log[2])
    /\ log[1].arg = Mysql /\ log[2].arg = Mysql
    /\ log[1].before = File(ConfigText(<<>>, PrefixTight, QuoteS, Sqlite, <<>>))
    /\ log[1].result
    /\ ~log[2].result
    /\ log[2].after = log[1].after

(***************************************************************************)
(* Further claims about update_env_file (checked under SpecEnv).           *)
(***************************************************************************)
IsUrlLine(line) == StartsWithAt(line, 1, UrlKey)

\* the DATABASE_URL lines of a text, in their order
UrlLines(t) == SelectSeq(SplitLines(t), IsUrlLine)

SqliteUrlLine == UrlKey \o UrlExample(Sqlite)

\* C29: a call adds no DATABASE_URL line; for postgres, mysql and mongodb
\* every DATABASE_URL line stays as it was, for sqlite every one becomes
\* the sqlite example URL; so each DATABASE_URL line of the file is one of
\* the text the first call started from or the sqlite one.
C29_UrlOnlyForSqlite ==
    \A i \in 1..Len(log) :
        IsEnvCall(log[i]) =>
            LET old   == UrlLines(EnvContent(log[i].before, log[i].example))
                new   == UrlLines(log[i].after.text)
                first == UrlLines(EnvContent(log[1].before, log[1].example))
            IN  /\ Len(new) = Len(old)
                /\ log[i].arg # Sqlite => new = old
                /\ log[i].arg = Sqlite =>
                       \A k \in 1..Len(new) : new[k] = SqliteUrlLine
                /\ \A k \in 1..Len(new) :
                       new[k] = SqliteUrlLine
                       \/ \E j \in 1..Len(first) : new[k] = first[j]

\* postgres left DATABASE_URL=pg://old in place, sqlite then rewrote it
C29_Witness ==
    /\ Len(log) = 2
    /\ IsEnvCall(log[1]) /\ IsEnvCall(log[2])
    /\ log[1].arg = Postgres
    /\ log[2].arg = Sqlite
    /\ UrlLines(log[1].before.text) = <<UrlLine>>
    /\ UrlLines(log[1].after.text) = <<UrlLine>>
    /\ UrlLines(log[2].after.text) = <<SqliteUrlLine>>

(***************************************************************************)
(* Further claims about render_template (checked under SpecRender).        *)
(***************************************************************************)
\* where the first placeholder of the text starts, 0 if it has none
FirstPlaceholder(t) ==
    IF HasPlaceholder(t)
    THEN CHOOSE i \in 1..Len(t) :
             PlaceholderEnd(t, i) # 0 /\ \A j \in 1..(i - 1) : PlaceholderEnd(t, j) = 0
    ELSE 0

\* C30: render_template is single-pass.  When the first placeholder of the
\* text names a key, the result is the text before it, then the value as
\* it is (also when the value holds a placeholder of a key), then the
\* rendering of what follows the placeholder in the original text.
\* (Stated of the latest call.)
C30_SinglePass ==
    (log # <<>> /\ IsRender(log[Len(log)])) =>
        LET call  == log[Len(log)]
            t     == call.before
            first == FirstPlaceholder(t)
            end   == PlaceholderEnd(t, first)
            id    == Slice(t, first + 2, end - 2)
        IN  (first # 0 /\ id \in DOMAIN call.arg) =>
                LET value == Str(call.arg[id])
                IN  call.after = Slice(t, 1, first - 1) \o value
                                 \o ExpectedRender(From(t, end + 1), call.arg)

\* " {{a}}" rendered with a = "{{b}}" and b = "a" gives " {{b}}"
C30_Witness ==
    /\ Len(log) >= 1
    /\ IsRender(log[1])
    /\ input.context = (KeyA :> StrVal(<<"{", "{", "b", "}", "}">>)) @@ (KeyB :> StrVal(KeyA))
    /\ log[1].before = <<" ", "{", "{", "a", "}", "}">>
    /\ log[1].after = <<" ", "{", "{", "b", "}", "}">>

=============================================================================
